---- MODULE Spec2Model ----
(***************************************************************************)
(* p2pg: a two-peer rollback-networked action game (bevy + bevy_ggrs +     *)
(* matchbox).  The module models, per peer, the GameState machine, the     *)
(* matchbox socket and the readiness poll, the ggrs session, the ECS world *)
(* advanced by the GgrsSchedule combat chain, the snapshot/restore of the  *)
(* rollback-registered components, local input sampling and the Update-    *)
(* phase presentation systems.                                             *)
(*                                                                         *)
(* Lengths are integers in units of 1/20 px (0.05 px, the wall-sensor      *)
(* thickness E); unit vectors are in thousandths.                          *)
(***************************************************************************)
EXTENDS Integers, Sequences, FiniteSets, TLC

-----------------------------------------------------------------------------
(* Bounds of the model *)

MaxFrame == 5        \* frames a session may advance to
MaxRollbacks == 1    \* snapshot loads per match
MaxPeers == 3        \* peer ids the rendezvous server may hand out
MaxMatches == 2      \* "Quick Play" clicks per peer
MaxCalls == 2        \* calls made on one Rng
Chunk == 1000        \* iterations of the test's loop taken as one step
MaxSamples == 2      \* ReadInputs runs per peer
MaxSteps == 27       \* frames of a Combat whose inputs are chosen freely

-----------------------------------------------------------------------------
(* Program constants *)

NumPlayers == 2          \* let num_players = 2
InputDelay == 2          \* .with_input_delay(2)
DesyncInterval == 10     \* DesyncDetection::On { interval: 10 }
ShootCooldown == 25      \* const SHOOT_COOLDOWN: usize = 25
InitSinceLast == 999     \* CanShoot { value: true, since_last: 999 }
BulletLifetime == 150    \* BulletBundle::new(dir, 2.2, 150, ..)
RngSeed == 8008135       \* Rng::new(8008135)
MOVE == 1                \* 1 << 0
FIRE == 2                \* 1 << 1
Scale == 20              \* model units per pixel
SIZE == 82               \* player half size 4.1 px
SensorE == 1             \* wall sensor half thickness E = 0.05 px
BulletVel == 44          \* arrow speed 2.2 px per frame
BulletSpawnDist == 320   \* arrow spawned 16 px ahead of the player
BulletRadius == 50       \* arrow hit circle radius 2.5 px
BulletHitOffset == 85    \* |(3,3)| = 4.243 px, rotated onto the flight direction
SpawnX == 320            \* players spawn at (-16, 0) and (16, 0)

Nodes == {1, 2}          \* the peers that run the program
PeerIds == 1..MaxPeers   \* every peer id a socket may report
Slots == 0..(NumPlayers - 1)
None == "None"

-----------------------------------------------------------------------------
(* Integer helpers *)

Abs(n) == IF n < 0 THEN -n ELSE n
Sgn(n) == IF n > 0 THEN 1 ELSE IF n < 0 THEN -1 ELSE 0
Min(a, b) == IF a <= b THEN a ELSE b
Max(a, b) == IF a >= b THEN a ELSE b
\* a / b rounded to nearest, ties away from zero (f32::round), b > 0
RoundDiv(a, b) == Sgn(a) * ((2 * Abs(a) + b) \div (2 * b))
Vec(x, y) == [x |-> x, y |-> y]
VZero == Vec(0, 0)
VAdd(a, b) == Vec(a.x + b.x, a.y + b.y)

-----------------------------------------------------------------------------
(* input.rs: PlayerInput and the angle codec *)

PlayerInput(d, b, a) == [dir |-> d, btn |-> b, angle |-> a]
DefaultInput == PlayerInput(0, 0, 0)
\* the records a frame's input set is drawn from
InputRight == PlayerInput(96, 3, 64)     \* run down-right, fire to the right
InputLeft == PlayerInput(191, 1, 191)    \* run left, aim left
InputSet == {InputRight, InputLeft}

Fire(input) == (input.btn \div FIRE) % 2 = 1
Moving(input) == (input.btn \div MOVE) % 2 = 1

\* angle_to_vec(from_u8_angle(b)) = (sin, cos) of 2*pi*b/255, in thousandths
AngleToVec(b) ==
    CASE b = 0 -> Vec(0, 1000)
      [] b = 32 -> Vec(709, 705)
      [] b = 64 -> Vec(1000, -6)
      [] b = 96 -> Vec(701, -714)
      [] b = 128 -> Vec(-12, -1000)
      [] b = 159 -> Vec(-701, -714)
      [] b = 191 -> Vec(-1000, -6)
      [] b = 223 -> Vec(-709, 705)

\* Vec2::normalize_or_zero of a vector whose nonzero form is a clamped unit vector
NormalizeOrZero(v) ==
    IF v.x = 0 /\ v.y = 0 THEN VZero
    ELSE IF v.x = 0 THEN Vec(0, 1000 * Sgn(v.y))
    ELSE IF v.y = 0 THEN Vec(1000 * Sgn(v.x), 0)
    ELSE v

Direction(input) == NormalizeOrZero(AngleToVec(input.dir))

\* a unit vector (thousandths) times a length (model units)
Scaled(len, v) == Vec(RoundDiv(len * v.x, 1000), RoundDiv(len * v.y, 1000))

-----------------------------------------------------------------------------
(* collision.rs: hitboxes and the separating-axis tests *)

\* Hitbox::Rect { offset, half_size } under a translation: the AABB handed to sepax2d
Rect(c, hx, hy) == [minx |-> c.x - hx, maxx |-> c.x + hx, miny |-> c.y - hy, maxy |-> c.y + hy]

\* the collision layer of the map: RigidBody rectangles in spawn order
\* (two floor slabs side by side under the left spawn point)
Obstacles ==
    << [minx |-> -536, maxx |-> -216, miny |-> -402, maxy |-> -82],
       [minx |-> -216, maxx |-> 104, miny |-> -402, maxy |-> -82] >>

\* sat_overlap of two AABBs
SatOverlap(a, b) ==
    ~(a.minx > b.maxx \/ b.minx > a.maxx \/ a.miny > b.maxy \/ b.miny > a.maxy)

\* sat_overlap of a circle and an AABB
CircleOverlap(c, r, b) ==
    LET dx == Max(Max(b.minx - c.x, c.x - b.maxx), 0)
        dy == Max(Max(b.miny - c.y, c.y - b.maxy), 0)
    IN dx * dx + dy * dy <= r * r

\* sat_collision(rigid, dynamic): the shift that moves dynamic out of rigid along
\* the axis of least penetration
SatCollision(rigid, dynamic) ==
    IF ~SatOverlap(rigid, dynamic) THEN VZero
    ELSE LET px == rigid.maxx - dynamic.minx
             nx == dynamic.maxx - rigid.minx
             py == rigid.maxy - dynamic.miny
             ny == dynamic.maxy - rigid.miny
             ox == Min(px, nx)
             oy == Min(py, ny)
         IN IF ox <= oy
            THEN Vec(IF px <= nx THEN px ELSE -nx, 0)
            ELSE Vec(0, IF py <= ny THEN py ELSE -ny)

\* hitbox_collision((p_hitbox, p_transform), (r_hitbox, r_transform))
hitbox_collision(pos, rigid) == SatCollision(rigid, Rect(pos, SIZE, SIZE))

\* hitbox_intersects of a wall sensor or the player hitbox with a rigid body
hitbox_intersects(box, rigid) == SatOverlap(box, rigid)

\* PlayerBundle::new: the four wall sensors around the player hitbox
SensorUp(pos) == Rect(VAdd(pos, Vec(0, SIZE)), SIZE - SensorE, SensorE)
SensorDown(pos) == Rect(VAdd(pos, Vec(0, -SIZE)), SIZE - SensorE, SensorE)
SensorLeft(pos) == Rect(VAdd(pos, Vec(-SIZE, 0)), SensorE, SIZE - SensorE)
SensorRight(pos) == Rect(VAdd(pos, Vec(SIZE, 0)), SensorE, SIZE - SensorE)

\* the player loop body of player_terrain_collision over the rigid bodies in
\* the order given: each correction is applied before the next body is tested
RECURSIVE ResolveTerrain(_, _)
ResolveTerrain(pos, bodies) ==
    IF bodies = << >> THEN pos
    ELSE ResolveTerrain(VAdd(pos, hitbox_collision(pos, Head(bodies))), Tail(bodies))

-----------------------------------------------------------------------------
(* component.rs: entities of the world *)

NoWalls == [up |-> FALSE, down |-> FALSE, left |-> FALSE, right |-> FALSE]

\* PlayerBundle::new(id, ..) at a spawn position, with its Bow child
NewPlayer(id, pos) ==
    [id |-> id, pos |-> pos, vel |-> VZero,
     can_shoot |-> [value |-> TRUE, since_last |-> InitSinceLast],
     walls |-> NoWalls, health |-> 1, points |-> 0, input_angle |-> 0,
     facing |-> "Down", bow |-> 0, last_damaged_by |-> {}]

\* BulletBundle::new(dir, 2.2, 150, ..) spawned by a player in a frame; bullet
\* is FALSE for an entity that lacks the Bullet and Hitbox components
NewBullet(frame, by, pos, angle) ==
    [id |-> <<frame, by>>, pos |-> pos, dir |-> angle, life |-> BulletLifetime,
     bullet |-> TRUE]

\* the world before spawn_players
NoRng == 0     \* no Rng resource has been inserted

EmptyWorld ==
    [players |-> << >>, bullets |-> << >>, rng |-> NoRng, frame |-> 0,
     fx |-> [f \in 0..(MaxFrame - 1) |-> 0]]

\* spawn_players: two Player entities are added to the world
spawn_players(w) ==
    [w EXCEPT !.players = @ \o << NewPlayer(0, Vec(-SpawnX, 0)), NewPlayer(1, Vec(SpawnX, 0)) >>]

-----------------------------------------------------------------------------
(* main.rs: the systems of the GgrsSchedule.  A system maps a run context    *)
(* c = [w: world, in: slot -> PlayerInput, spawn: arrows queued by Commands, *)
(* despawn: ids queued for despawn] to the context after it; Commands are    *)
(* applied when the schedule ends.                                           *)

MapPlayers(c, F(_)) ==
    [c EXCEPT !.w.players = [i \in 1..Len(c.w.players) |-> F(c.w.players[i])]]

AnyRigid(box) == \E i \in 1..Len(Obstacles) : hitbox_intersects(box, Obstacles[i])

sense_walls(c) ==
    LET F(pl) == [pl EXCEPT !.walls = [up |-> AnyRigid(SensorUp(pl.pos)),
                                        down |-> AnyRigid(SensorDown(pl.pos)),
                                        left |-> AnyRigid(SensorLeft(pl.pos)),
                                        right |-> AnyRigid(SensorRight(pl.pos))]]
    IN MapPlayers(c, F)

wall_direction_clamp(dir, walls) ==
    LET y == IF (walls.up /\ dir.y > 0) \/ (walls.down /\ dir.y < 0) THEN 0 ELSE dir.y
        x == IF (walls.right /\ dir.x > 0) \/ (walls.left /\ dir.x < 0) THEN 0 ELSE dir.x
    IN Vec(x, y)

\* move_player taking the heading from Facing: a player facing up stands still
move_player_by_facing(c) ==
    LET F(pl) ==
          LET dir == NormalizeOrZero(wall_direction_clamp(Direction(c.in[pl.id]), pl.walls))
              delta == IF pl.facing = "Up" THEN VZero ELSE NormalizeOrZero(dir)
          IN [pl EXCEPT !.vel = delta, !.pos = VAdd(pl.pos, Scaled(Scale, delta))]
    IN MapPlayers(c, F)

move_player(c) ==
    LET F(pl) ==
          LET dir == NormalizeOrZero(wall_direction_clamp(Direction(c.in[pl.id]), pl.walls))
              delta == NormalizeOrZero(dir)
          IN [pl EXCEPT !.vel = delta, !.pos = VAdd(pl.pos, Scaled(Scale, delta))]
    IN MapPlayers(c, F)

player_terrain_collision(c) ==
    LET F(pl) == [pl EXCEPT !.pos = ResolveTerrain(pl.pos, Obstacles)]
    IN MapPlayers(c, F)

FacingOf(angle) ==
    IF angle < 32 THEN "Up"
    ELSE IF angle < 96 THEN "Right"
    ELSE IF angle < 160 THEN "Down"
    ELSE IF angle < 224 THEN "Left"
    ELSE "Up"

track_player_facing(c) ==
    LET F(pl) == [pl EXCEPT !.facing = FacingOf(c.in[pl.id].angle)]
    IN MapPlayers(c, F)

\* the bow's rotation is 2*pi - from_u8_angle(angle) + pi/4: kept as the angle byte
point_bow(c) ==
    LET F(pl) == [pl EXCEPT !.bow = c.in[pl.id].angle]
    IN MapPlayers(c, F)

\* a shoot that does not wait for the cooldown
ShootsAnyTime(c, pl) ==
    Fire(c.in[pl.id]) /\ pl.can_shoot.value

Shoots(c, pl) ==
    Fire(c.in[pl.id]) /\ pl.can_shoot.value /\ pl.can_shoot.since_last >= ShootCooldown

RECURSIVE SpawnedBy(_, _)
SpawnedBy(c, i) ==
    IF i > Len(c.w.players) THEN << >>
    ELSE LET pl == c.w.players[i]
             angle == c.in[pl.id].angle
         IN (IF Shoots(c, pl)
             THEN << NewBullet(c.w.frame, pl.id,
                               VAdd(pl.pos, Scaled(BulletSpawnDist, AngleToVec(angle))), angle) >>
             ELSE << >>) \o SpawnedBy(c, i + 1)

shoot(c) ==
    LET F(pl) == IF Shoots(c, pl)
                 THEN [pl EXCEPT !.can_shoot = [value |-> FALSE, since_last |-> 0]]
                 ELSE pl
        arrows == SpawnedBy(c, 1)
    IN [MapPlayers(c, F) EXCEPT
          !.spawn = c.spawn \o arrows,
          \* one Bow_Release AudioBundle per shot
          !.w.fx[c.w.frame] = @ + Len(arrows)]

\* the arrow's Hitbox::Circle under its Transform
HitCenter(b) == VAdd(b.pos, Scaled(BulletHitOffset, AngleToVec(b.dir)))
Hits(pl, b) == b.bullet /\ CircleOverlap(HitCenter(b), BulletRadius, Rect(pl.pos, SIZE, SIZE))

bullet_player_collision(c) ==
    LET pairs == {<<i, j>> \in (1..Len(c.w.players)) \X (1..Len(c.w.bullets)) :
                      Hits(c.w.players[i], c.w.bullets[j])}
    IN [c EXCEPT !.despawn = @ \cup {c.w.bullets[pr[2]].id : pr \in pairs},
                 \* one Damage_1 AudioBundle per overlapping (player, arrow) pair
                 !.w.fx[c.w.frame] = @ + Cardinality(pairs)]

\* a hit system that takes the health and leaves the arrow in the world
bullet_player_system_keeps_arrow(c) ==
    LET hits(pl) == {j \in 1..Len(c.w.bullets) : Hits(pl, c.w.bullets[j])}
        F(pl) == IF hits(pl) = {} THEN pl
                 ELSE [pl EXCEPT !.health = @ - Cardinality(hits(pl)),
                                 !.last_damaged_by = {c.w.bullets[CHOOSE j \in hits(pl) : TRUE].id[2]}]
    IN MapPlayers(c, F)

\* collision.rs: bullet_player_system, the hit system that keeps Health.  Every
\* overlapping (player, arrow) pair takes one health from the player, records the
\* arrow's shooter (the last pair of the bullet loop stands) and despawns the arrow
bullet_player_system(c) ==
    LET hits(pl) == {j \in 1..Len(c.w.bullets) : Hits(pl, c.w.bullets[j])}
        last(pl) == CHOOSE j \in hits(pl) : \A k \in hits(pl) : k <= j
        F(pl) == IF hits(pl) = {} THEN pl
                 ELSE [pl EXCEPT !.health = @ - Cardinality(hits(pl)),
                                 !.last_damaged_by = {c.w.bullets[last(pl)].id[2]}]
        struck == UNION {hits(c.w.players[i]) : i \in 1..Len(c.w.players)}
        pairs == {<<i, j>> \in (1..Len(c.w.players)) \X (1..Len(c.w.bullets)) :
                      Hits(c.w.players[i], c.w.bullets[j])}
    IN [MapPlayers(c, F) EXCEPT
          !.despawn = @ \cup {c.w.bullets[j].id : j \in struck},
          !.w.fx[c.w.frame] = @ + Cardinality(pairs)]

\* a reload that re-arms the bow while fire is still held
reload_while_held(c) ==
    LET F(pl) == [pl EXCEPT !.can_shoot =
                     [value |-> TRUE, since_last |-> pl.can_shoot.since_last + 1]]
    IN MapPlayers(c, F)

reload(c) ==
    LET F(pl) == [pl EXCEPT !.can_shoot =
                     [value |-> IF ~Fire(c.in[pl.id]) THEN TRUE ELSE pl.can_shoot.value,
                      since_last |-> pl.can_shoot.since_last + 1]]
    IN MapPlayers(c, F)

move_bullets(c) ==
    [c EXCEPT !.w.bullets = [j \in 1..Len(c.w.bullets) |->
        LET b == c.w.bullets[j]
        IN IF b.bullet
           THEN [b EXCEPT !.pos = VAdd(b.pos, Scaled(BulletVel, AngleToVec(b.dir)))]
           ELSE b]]

\* a cull that despawns an entity one decrement early
despawn_a_frame_early(c) ==
    LET aged == [j \in 1..Len(c.w.bullets) |->
                    [c.w.bullets[j] EXCEPT !.life = @ - 1]]
    IN [c EXCEPT !.w.bullets = aged,
                 !.despawn = @ \cup {aged[j].id : j \in {k \in 1..Len(aged) : aged[k].life <= 1}}]

despawn_after_lifetime(c) ==
    LET aged == [j \in 1..Len(c.w.bullets) |->
                    [c.w.bullets[j] EXCEPT !.life = @ - 1]]
    IN [c EXCEPT !.w.bullets = aged,
                 !.despawn = @ \cup {aged[j].id : j \in {k \in 1..Len(aged) : aged[k].life = 0}}]

\* the chain with the arrow-player hits resolved ahead of the shots
CombatChainHitsFirst ==
    << "sense_walls", "move_player", "player_terrain_collision", "track_player_facing",
       "point_bow", "bullet_player_collision", "shoot", "reload", "move_bullets",
       "despawn_after_lifetime" >>

\* the COMBAT chain of main(): the systems in the order of the tuple, .chain()
CombatChain ==
    << "sense_walls", "move_player", "player_terrain_collision", "track_player_facing",
       "point_bow", "shoot", "bullet_player_collision", "reload", "move_bullets",
       "despawn_after_lifetime" >>

RunSystem(name, c) ==
    CASE name = "sense_walls" -> sense_walls(c)
      [] name = "move_player" -> move_player(c)
      [] name = "player_terrain_collision" -> player_terrain_collision(c)
      [] name = "track_player_facing" -> track_player_facing(c)
      [] name = "point_bow" -> point_bow(c)
      [] name = "shoot" -> shoot(c)
      [] name = "bullet_player_collision" -> bullet_player_collision(c)
      [] name = "bullet_player_system" -> bullet_player_system(c)
      [] name = "reload" -> reload(c)
      [] name = "move_bullets" -> move_bullets(c)
      [] name = "despawn_after_lifetime" -> despawn_after_lifetime(c)
      [] name = "countdown" -> c

\* Schedule::run: the systems one after the other, each logged as it runs
\* the systems of a chain run one after the other: each is handed the context
\* the one before it left
RECURSIVE RunChain(_, _)
RunChain(chain, c) ==
    IF chain = << >> THEN c
    ELSE LET ran == [RunSystem(Head(chain), c) EXCEPT !.log = Append(c.log, Head(chain))]
         IN IF Len(ran.log) > 0 THEN RunChain(Tail(chain), ran) ELSE c

RECURSIVE Without(_, _)
Without(bullets, ids) ==
    IF bullets = << >> THEN << >>
    ELSE (IF Head(bullets).id \in ids THEN << >> ELSE << Head(bullets) >>)
         \o Without(Tail(bullets), ids)

\* the deferred Commands of the run: despawns, then spawns
ApplyCommands(c) ==
    [c.w EXCEPT !.bullets = Without(c.w.bullets, c.despawn) \o c.spawn]

\* the systems GgrsSchedule runs in a GameState (run_if(in_state(..)))
ScheduleOf(state) ==
    IF state = "Combat" THEN CombatChain
    ELSE IF state = "Countdown" THEN << "countdown" >>
    ELSE << >>

\* GgrsSchedule on one frame's inputs
RunSchedule(w, state, in) ==
    RunChain(ScheduleOf(state),
             [w |-> w, in |-> in, spawn |-> << >>, despawn |-> {}, log |-> << >>])

\* the frame counter (GameFrameCount) advances once the systems of the frame have run
advance_frame(w) == [w EXCEPT !.frame = @ + 1]

\* one AdvanceFrame request: run GgrsSchedule, apply the Commands, advance the frame
AdvanceWorld(w, state, in) == advance_frame(ApplyCommands(RunSchedule(w, state, in)))

StagesOf(w, state, in) == Append(RunSchedule(w, state, in).log, "advance_frame")

-----------------------------------------------------------------------------
(* p2p.rs: NetworkingPlugin::build, the rollback registry.  A snapshot holds *)
(* the registered components of the rollback entities (players with their   *)
(* bows, arrows) and the registered resources; Player, Facing, Bullet and    *)
(* Hitbox are not registered.                                                *)

SnapPlayer(pl) ==
    [pos |-> pl.pos, can_shoot |-> pl.can_shoot, vel |-> pl.vel, walls |-> pl.walls,
     input_angle |-> pl.input_angle, health |-> pl.health, points |-> pl.points,
     bow |-> pl.bow, last_damaged_by |-> pl.last_damaged_by]

SnapBullet(b) == [id |-> b.id, pos |-> b.pos, life |-> b.life]

\* SaveGameState: Transform, CanShoot, Velocity, Lifetime, InputAngle,
\* WallContactState, Health, Points, LastDamagedBy, Rng, GameFrameCount
Snapshot(w) ==
    [players |-> [i \in 1..Len(w.players) |-> SnapPlayer(w.players[i])],
     bullets |-> [j \in 1..Len(w.bullets) |-> SnapBullet(w.bullets[j])],
     rng |-> w.rng, frame |-> w.frame]

RestorePlayer(pl, sp) ==
    [pl EXCEPT !.pos = sp.pos, !.can_shoot = sp.can_shoot, !.vel = sp.vel,
               !.walls = sp.walls, !.input_angle = sp.input_angle,
               !.health = sp.health, !.points = sp.points, !.bow = sp.bow,
               !.last_damaged_by = sp.last_damaged_by]

\* a rollback entity of the snapshot: the live entity with its registered
\* components restored, or, if it was despawned since, a fresh entity that
\* carries the registered components only
RestoreBullet(bullets, sb) ==
    LET live == {j \in 1..Len(bullets) : bullets[j].id = sb.id}
    IN IF live # {}
       THEN [bullets[CHOOSE j \in live : TRUE] EXCEPT !.pos = sb.pos, !.life = sb.life]
       ELSE [id |-> sb.id, pos |-> sb.pos, dir |-> 0, life |-> sb.life, bullet |-> FALSE]

\* LoadGameState: rollback entities spawned since the snapshot are despawned
LoadSnapshot(w, snap) ==
    [w EXCEPT !.players = [i \in 1..Len(w.players) |-> RestorePlayer(w.players[i], snap.players[i])],
              !.bullets = [j \in 1..Len(snap.bullets) |-> RestoreBullet(w.bullets, snap.bullets[j])],
              !.rng = snap.rng,
              !.frame = snap.frame]

-----------------------------------------------------------------------------
(* State *)

VARIABLES
    gameState,     \* State<GameState> of each peer
    nextState,     \* NextState<GameState>: the transition requested, or None
    socket,        \* MatchboxSocket resource: None, or the peers seen and whether
                   \* channel 0 is still owned by the socket
    session,       \* Session<GgrsConfig> resource: None, or the P2P session
    localPlayer,   \* LocalPlayer resource: None, or the local slot
    world,         \* the ECS world: players, arrows, Rng, frame counter, sounds
    start,         \* the world as spawn_players left it for the running match
    snaps,         \* snapshots saved by the session, one per simulated frame
    hist,          \* GameState and input set each frame was last simulated with
    stages,        \* the systems run by the latest simulated frame, in order
    events,        \* GgrsEvents the session has queued
    localInputs,   \* LocalInputs resource written by the input system
    camera,        \* Transform of the FollowPlayer camera
    animation,     \* AnimationIndices of the players and their bows
    panicked,      \* None, or the system that aborted the program
    op,            \* the schedule that ran last: [node, name]
    rollbacks, matches, samples,  \* counters that bound the model
    touch,         \* TouchMovement resource of the device: fingers, stick_id, fire_touch
    event,         \* the TouchInput process_touch_events handled last, if it was the last step
    drained,       \* what TouchMovement::drain returned, if it was the last step
    device,        \* the window, keys, mouse and touch result the input system read last
    codec,         \* the angle to_u8_angle was last given, its byte, the byte decoded
    rngs,          \* two Rng values, once they are created, and whether the build
                   \* they run in checks overflow, once an overflow has shown it
    rets,          \* the calls made on each Rng: the call, what it returned, the state after
    decks,         \* the Vec each Rng draws from with extract_random
    calls,         \* calls made on each Rng, a counter that bounds the model
    total,         \* the loop of the evenly_distributed test: draws made and their sum
    arena          \* one Combat followed frame by frame: its hit system, its world, the
                   \* inputs of its last frame and the frames in which each slot shot

touchVars == << touch, event, drained >>
pureVars == << codec, rngs, rets, decks, calls, total >>

vars == << gameState, nextState, socket, session, localPlayer, world, start, snaps, hist,
           stages, events, localInputs, camera, animation, panicked, op,
           rollbacks, matches, samples, touch, event, drained, device,
           codec, rngs, rets, decks, calls, total, arena >>

\* an absent MatchboxSocket, Session and LocalPlayer resource
NoSocket == [present |-> FALSE, peers |-> {}, channel |-> FALSE]
NoSession == [present |-> FALSE, roster |-> << >>, num_players |-> 0,
              input_delay |-> 0, desync_interval |-> 0]
NoLocalPlayer == -1

GameStates == {"Loading", "Lobby", "Connecting", "Countdown", "Combat"}

\* no Rng has been created; the test's loop has not started
NoRngs == [present |-> FALSE, checks |-> {}, rng |-> [p \in Nodes |-> << >>]]
NoTotal == [running |-> FALSE, draws |-> 0, whole |-> 0, part |-> 0]

\* TouchMovement::default(); an Option is the empty set or a singleton
NoTouches == [fingers |-> << >>, stick_id |-> {}, fire_touch |-> {}]

\* no Combat is being followed
NoArena ==
    [hit |-> None, w |-> EmptyWorld, in |-> [s \in Slots |-> DefaultInput],
     shots |-> [s \in Slots |-> << >>], span |-> [s \in Slots |-> 0]]

Init ==
    /\ gameState = [p \in Nodes |-> "Loading"]
    /\ nextState = [p \in Nodes |-> None]
    /\ socket = [p \in Nodes |-> NoSocket]
    /\ session = [p \in Nodes |-> NoSession]
    /\ localPlayer = [p \in Nodes |-> NoLocalPlayer]
    /\ world = [p \in Nodes |-> EmptyWorld]
    /\ start = [p \in Nodes |-> EmptyWorld]
    /\ snaps = [p \in Nodes |-> << >>]
    /\ hist = [p \in Nodes |-> << >>]
    /\ stages = [p \in Nodes |-> [state |-> None, log |-> << >>, moved |-> << >>]]
    /\ events = [p \in Nodes |-> {}]
    /\ localInputs = [p \in Nodes |-> {}]
    /\ camera = [p \in Nodes |-> VZero]
    /\ animation = [p \in Nodes |-> << >>]
    /\ panicked = [p \in Nodes |-> None]
    /\ op = [node |-> 0, name |-> "init"]
    /\ rollbacks = [p \in Nodes |-> 0]
    /\ matches = [p \in Nodes |-> 0]
    /\ samples = [p \in Nodes |-> 0]
    /\ touch = NoTouches
    /\ event = {}
    /\ drained = {}
    /\ device = [p \in Nodes |-> {}]
    /\ codec = {}
    /\ rngs = NoRngs
    /\ rets = [p \in Nodes |-> << >>]
    /\ decks = [p \in Nodes |-> << >>]
    /\ calls = [p \in Nodes |-> 0]
    /\ total = NoTotal
    /\ arena = NoArena

Alive(p) == panicked[p] = None
Did(p, name) == op' = [node |-> p, name |-> name]

-----------------------------------------------------------------------------
(* Lifecycle: main.rs state schedule, gui.rs, p2p.rs *)

\* check_load (Update, in Loading); loaded is the asset server's group load state
CheckLoad(p, loaded) ==
    /\ Alive(p) /\ gameState[p] = "Loading" /\ nextState[p] = None
    /\ IF loaded = "Failed"
       THEN /\ panicked' = [panicked EXCEPT ![p] = "check_load"]
            /\ UNCHANGED nextState
       ELSE /\ nextState' = [nextState EXCEPT ![p] = "Lobby"]
            /\ UNCHANGED panicked
    /\ Did(p, "Update")
    /\ UNCHANGED << touchVars, device, pureVars, arena >>
    /\ UNCHANGED << gameState, socket, session, localPlayer, world, start, snaps, hist,
                    stages, events, localInputs, camera, animation,
                    rollbacks, matches, samples >>

\* gui::main_menu (Update, in Lobby): the Quick Play button is clicked
MainMenu(p) ==
    /\ Alive(p) /\ gameState[p] = "Lobby" /\ nextState[p] = None
    /\ matches[p] < MaxMatches
    /\ matches' = [matches EXCEPT ![p] = @ + 1]
    /\ nextState' = [nextState EXCEPT ![p] = "Connecting"]
    /\ Did(p, "Update")
    /\ UNCHANGED << touchVars, device, pureVars, arena >>
    /\ UNCHANGED << gameState, socket, session, localPlayer, world, start, snaps, hist,
                    stages, events, localInputs, camera, animation, panicked,
                    rollbacks, samples >>

\* reset_game (OnEnter Lobby): the queries are With<Player> and With<Bullet>
RECURSIVE NotWithBullet(_)
NotWithBullet(bullets) ==
    IF bullets = << >> THEN << >>
    ELSE IF Head(bullets).bullet THEN NotWithBullet(Tail(bullets))
         ELSE << Head(bullets) >> \o NotWithBullet(Tail(bullets))

\* a reset that leaves the Player entities of the last match
reset_game_keeps_players(w) ==
    [w EXCEPT !.bullets = NotWithBullet(w.bullets), !.rng = RngSeed]

reset_game(w) ==
    [w EXCEPT !.players = << >>, !.bullets = NotWithBullet(w.bullets), !.rng = RngSeed]

\* apply_state_transition (StateTransition schedule) with the OnExit and
\* OnEnter systems of main.rs
StateTransition(p) ==
    /\ Alive(p) /\ nextState[p] # None
    /\ nextState' = [nextState EXCEPT ![p] = None]
    /\ gameState' = [gameState EXCEPT ![p] = nextState[p]]
    /\ LET from == gameState[p]
           to == nextState[p]
           left == IF from = "Connecting" /\ to # from THEN spawn_players(world[p])
                   ELSE world[p]
           entered == IF to = "Lobby" /\ to # from THEN reset_game(left) ELSE left
       IN /\ world' = [world EXCEPT ![p] = entered]
          /\ start' = [start EXCEPT ![p] =
                          IF from = "Connecting" /\ to # from THEN entered ELSE @]
          /\ IF to = "Lobby" /\ to # from
             THEN /\ socket' = [socket EXCEPT ![p] = NoSocket]
                  /\ session' = [session EXCEPT ![p] = NoSession]
                  /\ snaps' = [snaps EXCEPT ![p] = << >>]
                  /\ hist' = [hist EXCEPT ![p] = << >>]
                  /\ events' = [events EXCEPT ![p] = {}]
             ELSE /\ socket' = [socket EXCEPT ![p] =
                                   IF to = "Connecting" /\ to # from
                                   THEN [present |-> TRUE, peers |-> {}, channel |-> TRUE] ELSE @]
                  /\ UNCHANGED << session, snaps, hist, events >>
    /\ Did(p, "StateTransition")
    /\ UNCHANGED << touchVars, device, pureVars, arena >>
    /\ UNCHANGED << localPlayer, stages, localInputs, camera, animation, panicked,
                    rollbacks, matches, samples >>

\* the ids of a set in ascending order
RECURSIVE SortedSeq(_)
SortedSeq(S) ==
    IF S = {} THEN << >>
    ELSE LET m == CHOOSE x \in S : \A y \in S : x <= y
         IN << m >> \o SortedSeq(S \ {m})

\* a peer that joins late is taken into the roster of the running session
PeerConnectedLiveRoster(p, q) ==
    /\ Alive(p) /\ socket[p].present
    /\ q # p /\ q \notin socket[p].peers
    /\ socket' = [socket EXCEPT ![p].peers = @ \cup {q}]
    /\ session' = [session EXCEPT ![p] =
          IF @.present
          THEN [@ EXCEPT !.roster =
                  LET ids == SortedSeq(socket[p].peers \cup {p, q})
                  IN [i \in 1..Len(ids) |->
                        [type |-> IF ids[i] = p THEN "Local" ELSE "Remote", peer |-> ids[i]]]]
          ELSE @]
    /\ Did(p, "network")
    /\ UNCHANGED << touchVars, device, pureVars, arena >>
    /\ UNCHANGED << gameState, nextState, localPlayer, world, start, snaps, hist,
                    stages, events, localInputs, camera, animation, panicked,
                    rollbacks, matches, samples >>

\* the signalling server introduces peer q to the socket of p
PeerConnected(p, q) ==
    /\ Alive(p) /\ socket[p].present /\ socket[p].channel
    /\ q # p /\ q \notin socket[p].peers
    /\ socket' = [socket EXCEPT ![p].peers = @ \cup {q}]
    /\ Did(p, "network")
    /\ UNCHANGED << touchVars, device, pureVars, arena >>
    /\ UNCHANGED << gameState, nextState, session, localPlayer, world, start, snaps, hist,
                    stages, events, localInputs, camera, animation, panicked,
                    rollbacks, matches, samples >>

\* the local peer ahead of the connected peers
players_local_first(p, peers) ==
    LET ids == << p >> \o SortedSeq(peers \ {p})
    IN [i \in 1..Len(ids) |-> [type |-> IF ids[i] = p THEN "Local" ELSE "Remote", peer |-> ids[i]]]

\* MatchboxSocket::players: the local peer and the connected peers, by peer id
players(p, peers) ==
    LET ids == SortedSeq(peers \cup {p})
    IN [i \in 1..Len(ids) |-> [type |-> IF ids[i] = p THEN "Local" ELSE "Remote", peer |-> ids[i]]]

\* the state wait_for_players requests once the session is built
PollTargets == {"Countdown", "Game"}

\* the poll goes on as soon as the socket owns its channel
poll_ready_alone(p) == socket[p].channel

\* the two early returns of wait_for_players: the channel has been taken, or
\* fewer than num_players players are known to the socket
poll_ready(p) ==
    socket[p].channel /\ Len(players(p, socket[p].peers)) >= NumPlayers

\* wait_for_players (Update, in Connecting)
WaitForPlayers(p, target) ==
    /\ Alive(p) /\ gameState[p] = "Connecting" /\ nextState[p] = None
    /\ socket[p].present
    /\ LET roster == players(p, socket[p].peers)
       IN IF ~poll_ready(p)
          THEN UNCHANGED << socket, session, localPlayer, nextState, snaps, hist, panicked >>
          ELSE IF \E i \in 1..Len(roster) : i - 1 >= NumPlayers
             THEN \* add_player(player, id) is Err for a handle >= num_players
                  /\ panicked' = [panicked EXCEPT ![p] = "wait_for_players"]
                  /\ UNCHANGED << socket, session, localPlayer, nextState, snaps, hist >>
             ELSE /\ localPlayer' = [localPlayer EXCEPT ![p] =
                        (CHOOSE i \in 1..Len(roster) : roster[i].type = "Local") - 1]
                  /\ socket' = [socket EXCEPT ![p].channel = FALSE]
                  /\ session' = [session EXCEPT ![p] =
                        [present |-> TRUE, roster |-> roster, num_players |-> NumPlayers,
                         input_delay |-> InputDelay, desync_interval |-> DesyncInterval]]
                  /\ nextState' = [nextState EXCEPT ![p] = target]
                  /\ snaps' = [snaps EXCEPT ![p] = << >>]
                  /\ hist' = [hist EXCEPT ![p] = << >>]
                  /\ UNCHANGED panicked
    /\ Did(p, "Update")
    /\ UNCHANGED << touchVars, device, pureVars, arena >>
    /\ UNCHANGED << gameState, world, start, stages, events, localInputs, camera,
                    animation, rollbacks, matches, samples >>

\* the systems of a schedule that run before system name
RECURSIVE Before(_, _)
Before(chain, name) ==
    IF chain = << >> \/ Head(chain) = name THEN << >>
    ELSE << Head(chain) >> \o Before(Tail(chain), name)

\* the player positions player_terrain_collision is handed in a frame
Moved(w, state, in) ==
    LET chain == ScheduleOf(state)
        c == RunChain(Before(chain, "player_terrain_collision"),
                      [w |-> w, in |-> in, spawn |-> << >>, despawn |-> {}, log |-> << >>])
    IN IF \E j \in 1..Len(chain) : chain[j] = "player_terrain_collision"
       THEN [i \in 1..Len(c.w.players) |-> c.w.players[i].pos]
       ELSE << >>

-----------------------------------------------------------------------------
(* The session drives GgrsSchedule: SaveGameState, AdvanceFrame, and on a     *)
(* misprediction LoadGameState followed by the re-simulation of the frames.   *)

Frame(p) == Len(hist[p])

\* the session runs once its peers are synchronized, which takes several polls
Running(p) == session[p].present /\ gameState[p] # "Connecting"

\* PlayerInputs of a frame: with input delay 2 the first two frames carry the
\* default input for every slot
InputsAt(f, dom) ==
    IF f < InputDelay THEN {[i \in Slots |-> DefaultInput]} ELSE [Slots -> dom]

\* SaveGameState then AdvanceFrame for the next frame
GgrsAdvance(p, dom) ==
    /\ Alive(p) /\ Running(p)
    /\ world[p].frame < MaxFrame
    /\ \E in \in InputsAt(Frame(p), dom) :
          /\ snaps' = [snaps EXCEPT ![p] = Append(@, Snapshot(world[p]))]
          /\ world' = [world EXCEPT ![p] = AdvanceWorld(@, gameState[p], in)]
          /\ hist' = [hist EXCEPT ![p] = Append(@, [state |-> gameState[p], in |-> in])]
          /\ stages' = [stages EXCEPT ![p] =
                           [state |-> gameState[p], log |-> StagesOf(world[p], gameState[p], in),
                            moved |-> Moved(world[p], gameState[p], in)]]
    \* countdown
    /\ nextState' = [nextState EXCEPT ![p] = IF gameState[p] = "Countdown" THEN "Combat" ELSE @]
    /\ Did(p, "GgrsSchedule")
    /\ UNCHANGED << touchVars, device, pureVars, arena >>
    /\ UNCHANGED << gameState, socket, session, localPlayer, start, events, localInputs,
                    camera, animation, panicked, rollbacks, matches, samples >>

\* re-simulation of the frames from..to of ins under GameState st
RECURSIVE Resimulate(_, _, _, _, _)
Resimulate(w, st, ins, from, to) ==
    IF from > to THEN w
    ELSE LET next == AdvanceWorld(w, st, ins[from])
         IN IF next.frame > w.frame THEN Resimulate(next, st, ins, from + 1, to) ELSE w

\* the snapshots SaveGameState takes before each of those frames
ResimSnaps(w, st, ins, from, to) ==
    [j \in 1..(to - from + 1) |-> Snapshot(Resimulate(w, st, ins, from, from + j - 2))]

\* the inputs of the frames after a correction: the local slot keeps what it
\* sent, the remote slot takes the inputs r that arrived
Corrected(p, k, r) ==
    [f \in 1..Frame(p) |->
        IF f <= k THEN hist[p][f].in
        ELSE [i \in Slots |-> IF i = localPlayer[p] THEN hist[p][f].in[i] ELSE r[f]]]

\* LoadGameState of frame k (the first mispredicted frame), then SaveGameState
\* and AdvanceFrame for every frame up to the current one
Rollback(p, k, dom) ==
    /\ Alive(p) /\ Running(p)
    /\ rollbacks[p] < MaxRollbacks
    /\ k >= InputDelay /\ k < Frame(p)
    /\ \E r \in [(k + 1)..Frame(p) -> dom] :
          LET ins == Corrected(p, k, r)
              loaded == LoadSnapshot(world[p], snaps[p][k + 1])
              st == gameState[p]
          IN /\ ins[k + 1] # hist[p][k + 1].in
             /\ world' = [world EXCEPT ![p] = Resimulate(loaded, st, ins, k + 1, Frame(p))]
             /\ snaps' = [snaps EXCEPT ![p] =
                             SubSeq(@, 1, k) \o ResimSnaps(loaded, st, ins, k + 1, Frame(p))]
             /\ hist' = [hist EXCEPT ![p] =
                            [f \in 1..Frame(p) |->
                                IF f <= k THEN @[f] ELSE [state |-> st, in |-> ins[f]]]]
             /\ stages' = [stages EXCEPT ![p] =
                              LET last == Resimulate(loaded, st, ins, k + 1, Frame(p) - 1)
                              IN [state |-> st,
                                  log |-> StagesOf(last, st, ins[Frame(p)]),
                                  moved |-> Moved(last, st, ins[Frame(p)])]]
    /\ rollbacks' = [rollbacks EXCEPT ![p] = @ + 1]
    /\ nextState' = [nextState EXCEPT ![p] = IF gameState[p] = "Countdown" THEN "Combat" ELSE @]
    /\ Did(p, "GgrsSchedule")
    /\ UNCHANGED << touchVars, device, pureVars, arena >>
    /\ UNCHANGED << gameState, socket, session, localPlayer, start, events, localInputs,
                    camera, animation, panicked, matches, samples >>

-----------------------------------------------------------------------------
(* input.rs: the input system of the ReadInputs schedule *)

TwoPi == 6283      \* 2 * PI in milliradians
NaNAngle == -1     \* f32 NaN: clamp and the cast to u8 take it to 0, as they take a negative

\* vec_to_angle: dir.angle_between(NEG_Y) + PI, in milliradians, of the axis vectors
vec_to_angle(dir) ==
    CASE dir = Vec(1, 0) -> 1571
      [] dir = Vec(0, -1) -> 3142
      [] dir = Vec(-1, 0) -> 4712
      [] dir = Vec(0, 1) -> TwoPi
      [] dir = Vec(0, 0) -> NaNAngle

\* an encoder that takes the half turn for the full range
to_u8_angle_half_turn(angle) ==
    RoundDiv(Max(0, Min(angle, TwoPi \div 2)) * 255, TwoPi \div 2)

\* to_u8_angle: (angle / 2 PI).clamp(0, 1) * 255, rounded
to_u8_angle(angle) == RoundDiv(Max(0, Min(angle, TwoPi)) * 255, TwoPi)

\* what the input system reads: whether the Window query has its single window, the
\* touch interpreter's result (TouchMovement::drain), the WASD direction, the left
\* mouse button, the cursor relative to the window centre with y up (empty when the
\* cursor is outside the window)
KeySample == [window |-> TRUE, touch |-> {}, focused |-> TRUE, keys |-> Vec(1, 0),
              mouse |-> TRUE, cursor |-> {Vec(1, 0)}]
IdleSample == [window |-> TRUE, touch |-> {}, focused |-> FALSE, keys |-> Vec(0, 0),
               mouse |-> FALSE, cursor |-> {}]
TouchSample == [window |-> TRUE, touch |-> {PlayerInput(191, MOVE, 191)}, focused |-> TRUE,
                keys |-> Vec(0, 0), mouse |-> FALSE, cursor |-> {}]
Samples == {KeySample, IdleSample, TouchSample}

\* the PlayerInput built from the keyboard and mouse
KeyInput(sample, input_angle) ==
    LET dir == IF sample.focused THEN sample.keys ELSE Vec(0, 0)
        fire == IF sample.focused /\ sample.mouse THEN FIRE ELSE 0
        move == IF dir # Vec(0, 0) THEN MOVE ELSE 0
        angle == IF sample.cursor # {}
                 THEN to_u8_angle(vec_to_angle(CHOOSE v \in sample.cursor : TRUE))
                 ELSE input_angle
    IN PlayerInput(to_u8_angle(vec_to_angle(dir)), fire + move, angle)

\* a touch record with the keyboard's and the mouse's bits merged into it
SampledMerged(sample, input_angle) ==
    LET k == KeyInput(sample, input_angle)
    IN IF sample.touch # {}
       THEN LET t == CHOOSE t \in sample.touch : TRUE
            IN PlayerInput(t.dir,
                           (IF Moving(t) \/ Moving(k) THEN MOVE ELSE 0)
                           + (IF Fire(t) \/ Fire(k) THEN FIRE ELSE 0),
                           t.angle)
       ELSE k

\* the record input stores for a player whose InputAngle is input_angle
Sampled(sample, input_angle) ==
    IF sample.touch # {}
    THEN CHOOSE t \in sample.touch : TRUE
    ELSE KeyInput(sample, input_angle)

\* input: q_window.single() aborts unless there is exactly one window; for the local
\* handle, the touch input if there is one, else the keyboard's; the angle sent is
\* kept in the player's InputAngle
Input(p, sample) ==
    /\ Alive(p) /\ Running(p)
    /\ samples[p] < MaxSamples
    /\ samples' = [samples EXCEPT ![p] = @ + 1]
    /\ device' = [device EXCEPT ![p] = {sample}]
    /\ LET mine == {i \in 1..Len(world[p].players) : world[p].players[i].id = localPlayer[p]}
       IN IF ~sample.window
          THEN /\ panicked' = [panicked EXCEPT ![p] = "input"]
               /\ UNCHANGED << localInputs, world >>
          ELSE IF mine = {}
          THEN /\ localInputs' = [localInputs EXCEPT ![p] = {DefaultInput}]
               /\ UNCHANGED << world, panicked >>
          ELSE LET i == CHOOSE j \in mine : \A l \in mine : j <= l
                   sent == Sampled(sample, world[p].players[i].input_angle)
               IN /\ localInputs' = [localInputs EXCEPT ![p] = {sent}]
                  /\ world' = [world EXCEPT ![p].players[i].input_angle = sent.angle]
                  /\ UNCHANGED panicked
    /\ Did(p, "ReadInputs")
    /\ UNCHANGED << touchVars, pureVars, arena >>
    /\ UNCHANGED << gameState, nextState, socket, session, localPlayer, start, snaps, hist,
                    stages, events, camera, animation, rollbacks, matches >>

-----------------------------------------------------------------------------
(* main.rs, p2p.rs: the systems Update runs in every GameState *)

\* the rectangle the camera centre is clamped to: the map's Aabb shrunk by half
\* the viewport
CameraBox == [minx |-> -300, maxx |-> 300, miny |-> -300, maxy |-> 300]

camera_follow(cam, w, id) ==
    LET mine == {i \in 1..Len(w.players) : w.players[i].id = id}
    IN IF id = NoLocalPlayer \/ mine = {} THEN cam
       ELSE LET pos == w.players[CHOOSE i \in mine : TRUE].pos
            IN Vec(Max(CameraBox.minx, Min(pos.x, CameraBox.maxx)),
                   Max(CameraBox.miny, Min(pos.y, CameraBox.maxy)))

BowDrawAfter == 10

\* player_animation_indices and the bow's indices
animate_player(pl) ==
    [kind |-> IF pl.vel = VZero THEN "Stand" ELSE "Walk", facing |-> pl.facing]
animate_bow(pl) == IF pl.can_shoot.since_last > BowDrawAfter THEN "Draw" ELSE "Empty"

\* camera_follow, animate_player, animate_bow
Present(p) ==
    /\ Alive(p) /\ gameState[p] # "Loading"
    /\ camera' = [camera EXCEPT ![p] = camera_follow(@, world[p], localPlayer[p])]
    /\ animation' = [animation EXCEPT ![p] =
          [i \in 1..Len(world[p].players) |->
              [body |-> animate_player(world[p].players[i]),
               bow |-> animate_bow(world[p].players[i])]]]
    /\ Did(p, "Update")
    /\ UNCHANGED << touchVars, device, pureVars, arena >>
    /\ UNCHANGED << gameState, nextState, socket, session, localPlayer, world, start, snaps,
                    hist, stages, events, localInputs, panicked, rollbacks, matches, samples >>

\* the session reports event e (GgrsEvent) while it polls its remote clients.
\* A peer is disconnected once it has been silent for the disconnect timeout and
\* checksums are compared for confirmed frames, so events are those of a session
\* that has advanced; the handler does not read the frame an event belongs to.
GgrsEvents == {"Disconnected", "DesyncDetected"}

SessionEvent(p, e) ==
    /\ Alive(p) /\ Running(p) /\ Frame(p) > 0
    /\ events[p] = {}
    /\ events' = [events EXCEPT ![p] = @ \cup {e}]
    /\ Did(p, "network")
    /\ UNCHANGED << touchVars, device, pureVars, arena >>
    /\ UNCHANGED << gameState, nextState, socket, session, localPlayer, world, start, snaps,
                    hist, stages, localInputs, camera, animation, panicked,
                    rollbacks, matches, samples >>

\* every event is taken off the queue and none changes the GameState
ProcessGgrsEventsIgnored(p) ==
    /\ Alive(p) /\ session[p].present /\ nextState[p] = None
    /\ events[p] # {}
    /\ events' = [events EXCEPT ![p] = {}]
    /\ Did(p, "Update")
    /\ UNCHANGED << touchVars, device, pureVars, arena >>
    /\ UNCHANGED << gameState, nextState, socket, session, localPlayer, world, start, snaps,
                    hist, stages, localInputs, camera, animation, panicked,
                    rollbacks, matches, samples >>

\* process_ggrs_events: drains session.events()
ProcessGgrsEvents(p) ==
    /\ Alive(p) /\ session[p].present /\ nextState[p] = None
    /\ events[p] # {}
    /\ events' = [events EXCEPT ![p] = {}]
    /\ nextState' = [nextState EXCEPT ![p] = IF "Disconnected" \in events[p] THEN "Lobby" ELSE @]
    /\ Did(p, "Update")
    /\ UNCHANGED << touchVars, device, pureVars, arena >>
    /\ UNCHANGED << gameState, socket, session, localPlayer, world, start, snaps, hist,
                    stages, localInputs, camera, animation, panicked,
                    rollbacks, matches, samples >>

-----------------------------------------------------------------------------
(* The match simulated by one peer, over every input of InputSet *)

\* the peer whose run is modelled; its id sorts between the ids a remote may have
Solo == CHOOSE p \in Nodes : \A q \in Nodes : q <= p

SimNext ==
    \/ CheckLoad(Solo, "Loaded")
    \/ StateTransition(Solo)
    \/ MainMenu(Solo)
    \/ \E q \in PeerIds : PeerConnected(Solo, q)
    \/ WaitForPlayers(Solo, "Countdown")
    \/ GgrsAdvance(Solo, InputSet)
    \/ \E k \in 0..MaxFrame : Rollback(Solo, k, InputSet)

SpecSim == Init /\ [][SimNext]_vars

-----------------------------------------------------------------------------
(* A run that never rolls back: the frames of a history simulated in order *)

RECURSIVE Replay(_, _)
Replay(w, h) ==
    IF h = << >> THEN w
    ELSE LET next == AdvanceWorld(w, Head(h).state, Head(h).in)
         IN IF next.frame > w.frame THEN Replay(next, Tail(h)) ELSE w

\* a second execution's start: the same rollback-tracked state and RNG seed in
\* a process whose untracked state (Facing, sounds already playing) differs
Independent(w) ==
    [w EXCEPT !.players = [i \in 1..Len(w.players) |-> [w.players[i] EXCEPT !.facing = "Up"]],
              !.fx = [f \in DOMAIN w.fx |-> 1]]

InMatch(p) == Running(p) /\ Len(world[p].players) = NumPlayers

-----------------------------------------------------------------------------
(* C1: from the same rollback-tracked start state and RNG seed, a second,    *)
(* independent execution fed the frames' PlayerInputs in the same order has  *)
(* the same rollback-tracked state (positions, velocities, CanShoot, life-   *)
(* times, health, wall contacts, RNG, live arrows) after every frame.        *)
C1_Deterministic ==
    \A p \in Nodes :
        InMatch(p) /\ rollbacks[p] = 0
            => Snapshot(world[p]) = Snapshot(Replay(Independent(start[p]), hist[p]))

\* an arrow is in flight after four frames of a match that never rolled back
C1_Witness ==
    \E p \in Nodes :
        /\ InMatch(p) /\ rollbacks[p] = 0 /\ Frame(p) >= 4
        /\ Len(world[p].bullets) > 0
        /\ Independent(start[p]) # start[p]

(* C2: simulating a frame, restoring the snapshot taken before it and        *)
(* simulating it again changes nothing outside rollback-tracked state: the   *)
(* one-shot sounds that exist for a frame are those of a single simulation   *)
(* of the frame, however often it was simulated.                             *)
C2_OneShotEffects ==
    \A p \in Nodes :
        InMatch(p) => \A f \in DOMAIN world[p].fx :
                          world[p].fx[f] = Replay(start[p], hist[p]).fx[f]

(* C3: the position player-terrain collision resolution leaves a player at   *)
(* is the same for every order in which the rigid bodies are visited.        *)
Orders ==
    {o \in [1..Len(Obstacles) -> 1..Len(Obstacles)] :
        \A i, j \in 1..Len(Obstacles) : o[i] = o[j] => i = j}

C3_OrderIndependent ==
    \A p \in Nodes : \A i \in DOMAIN stages[p].moved : \A o \in Orders :
        ResolveTerrain(stages[p].moved[i], [j \in 1..Len(Obstacles) |-> Obstacles[o[j]]])
            = ResolveTerrain(stages[p].moved[i], Obstacles)

(* C4: in every simulated frame the stages sense walls, move, resolve        *)
(* terrain collisions, update facing and aim, shoot, resolve arrow-player    *)
(* hits, reload, cull by lifetime, advance the frame counter run exactly     *)
(* once each and in that order.                                              *)
StageOrder ==
    << "sense_walls", "move_player", "player_terrain_collision", "track_player_facing",
       "point_bow", "shoot", "bullet_player_collision", "reload",
       "despawn_after_lifetime", "advance_frame" >>

RECURSIVE Restrict(_, _)
Restrict(log, names) ==
    IF log = << >> THEN << >>
    ELSE IF \E j \in 1..Len(names) : names[j] = Head(log)
         THEN << Head(log) >> \o Restrict(Tail(log), names)
         ELSE Restrict(Tail(log), names)

SimState(w) == [players |-> w.players, bullets |-> w.bullets, rng |-> w.rng, frame |-> w.frame]

C5_RollbackSufficient ==
    \A p \in Nodes :
        InMatch(p) => SimState(world[p]) = SimState(Replay(start[p], hist[p]))

-----------------------------------------------------------------------------
(* The program of one peer from start-up through matches and back to the    *)
(* lobby, each frame simulated once; mispredictions and the re-simulation   *)
(* they cause are explored by SpecSim                                        *)

Next ==
    \/ \E loaded \in {"Loaded", "Failed"} : CheckLoad(Solo, loaded)
    \/ StateTransition(Solo)
    \/ MainMenu(Solo)
    \/ \E q \in PeerIds : PeerConnected(Solo, q)
    \/ \E target \in PollTargets : WaitForPlayers(Solo, target)
    \/ \E sample \in Samples : Input(Solo, sample)
    \/ GgrsAdvance(Solo, {InputRight})
    \/ Present(Solo)
    \/ \E e \in GgrsEvents : SessionEvent(Solo, e)
    \/ ProcessGgrsEvents(Solo)

Spec == Init /\ [][Next]_vars

-----------------------------------------------------------------------------
(* Two peers of one room, each running the program up to its first frames *)

PairNext ==
    \E p \in Nodes :
        \/ CheckLoad(p, "Loaded")
        \/ StateTransition(p)
        \/ MainMenu(p)
        \/ \E q \in PeerIds : PeerConnected(p, q)
        \/ WaitForPlayers(p, "Countdown")
        \/ GgrsAdvance(p, {InputRight})

SpecPair == Init /\ [][PairNext]_vars

-----------------------------------------------------------------------------
\* the schedules that are not the simulation step
OutsideStep == {"ReadInputs", "Update", "network"}

(* C6: input sampling, network polling and the Update systems never modify   *)
(* a rollback-registered component of a rollback entity or a rollback-       *)
(* registered resource of a live match.                                      *)
C6_NoOutsideWrites ==
    [][\A p \in Nodes :
          InMatch(p) /\ op'.name \in OutsideStep
              => Snapshot(world'[p]) = Snapshot(world[p])]_vars

PeersOf(p) == {session[p].roster[i].peer : i \in 1..Len(session[p].roster)}
LocalSlots(p) == {i \in 1..Len(session[p].roster) : session[p].roster[i].type = "Local"}

(* C7: two peers that both complete the poll for the same room build the     *)
(* same slot-to-peer roster, each marks exactly one slot as local, and the   *)
(* two local slots are the distinct slots 0 and 1.                           *)
C7_SameRoster ==
    \A p, q \in Nodes :
        p # q /\ session[p].present /\ session[q].present /\ PeersOf(p) = PeersOf(q)
            => /\ [i \in 1..Len(session[p].roster) |-> session[p].roster[i].peer]
                    = [i \in 1..Len(session[q].roster) |-> session[q].roster[i].peer]
               /\ Cardinality(LocalSlots(p)) = 1
               /\ {localPlayer[p], localPlayer[q]} = Slots

\* both peers of a room have their session and have simulated a frame
C7_Witness ==
    \E p, q \in Nodes :
        /\ p # q /\ session[p].present /\ session[q].present
        /\ PeersOf(p) = PeersOf(q)
        /\ Frame(p) > 0 /\ Frame(q) > 0

(* C8: while a session exists, the slot-to-peer mapping, the local slot and  *)
(* the id of every Player entity stay what they were, through frames,        *)
(* rollbacks and polls.                                                      *)
C8_RosterFixed ==
    [][\A p \in Nodes :
          session[p].present /\ session'[p].present
              => /\ session'[p].roster = session[p].roster
                 /\ localPlayer'[p] = localPlayer[p]
                 /\ \A i \in DOMAIN world[p].players \cap DOMAIN world'[p].players :
                        world'[p].players[i].id = world[p].players[i].id]_vars

\* a session that has simulated frames and re-simulated some after a rollback
C8_Witness ==
    \E p \in Nodes :
        /\ session[p].present /\ rollbacks[p] > 0 /\ Frame(p) >= 3
        /\ localPlayer[p] \in Slots
        /\ Len(world[p].players) = NumPlayers

(* C9: a session is created only by a poll in which exactly 2 peers are      *)
(* present; a poll that sees more neither fails nor builds a session of      *)
(* another size; the poll hands over the channel and builds the session with *)
(* 2 players, input delay 2 and desync checks every 10 frames.               *)
C9_PollExactlyTwo ==
    \A p \in Nodes :
        /\ panicked[p] # "wait_for_players"
        /\ session[p].present
              => /\ Len(session[p].roster) = 2
                 /\ session[p].num_players = 2
                 /\ session[p].input_delay = 2
                 /\ session[p].desync_interval = 10
                 /\ ~socket[p].channel

(* C10: GameState only moves Lobby -> Connecting -> Countdown -> Combat ->   *)
(* Lobby: the Lobby is left only for Connecting, Connecting only for         *)
(* Countdown and only once the poll has created the session, Countdown for   *)
(* Combat, and the match (Countdown, Combat) otherwise only for the Lobby.   *)
Lifecycle(p, from, to) ==
    \/ from = "Loading" /\ to = "Lobby"
    \/ from = "Lobby" /\ to = "Connecting"
    \/ from = "Connecting" /\ to = "Countdown" /\ session[p].present
    \/ from = "Countdown" /\ to = "Combat"
    \/ from \in {"Countdown", "Combat"} /\ to = "Lobby"

C10_Lifecycle ==
    [][\A p \in Nodes :
          gameState'[p] # gameState[p] => Lifecycle(p, gameState[p], gameState'[p])]_vars

-----------------------------------------------------------------------------
(* Leaving a match: the program of one peer with the Update and state-        *)
(* transition schedules run in every tick of the app                          *)

LeaveNext ==
    \/ CheckLoad(Solo, "Loaded")
    \/ StateTransition(Solo)
    \/ MainMenu(Solo)
    \/ \E q \in PeerIds : PeerConnected(Solo, q)
    \/ WaitForPlayers(Solo, "Countdown")
    \/ GgrsAdvance(Solo, {InputRight})
    \/ \E e \in GgrsEvents : SessionEvent(Solo, e)
    \/ ProcessGgrsEvents(Solo)

SpecLeave ==
    /\ Init /\ [][LeaveNext]_vars
    /\ WF_vars(StateTransition(Solo))
    /\ WF_vars(ProcessGgrsEvents(Solo))

InGame(p) == gameState[p] \in {"Countdown", "Combat"}

(* C11: a Disconnected event reported during a match is answered by a request *)
(* for the Lobby that nothing replaces, the Lobby is then entered with the    *)
(* socket and the session removed, and Connecting is requested only by the    *)
(* Quick Play button: a disconnect always leads back to the Lobby and never   *)
(* to a reconnect.                                                            *)
C11_DisconnectToLobby ==
    /\ [][\A p \in Nodes :
            /\ ("Disconnected" \in events[p] /\ events'[p] = {})
                  => (nextState'[p] = "Lobby" \/ gameState'[p] = "Lobby")
            /\ (InGame(p) /\ nextState[p] = "Lobby")
                  => (\/ nextState'[p] = "Lobby" /\ gameState'[p] = gameState[p]
                      \/ /\ gameState'[p] = "Lobby" /\ nextState'[p] = None
                         /\ ~socket'[p].present /\ ~session'[p].present)
            /\ (nextState'[p] = "Connecting" /\ nextState[p] # "Connecting")
                  => (gameState[p] = "Lobby" /\ matches'[p] = matches[p] + 1)]_vars
    /\ \A p \in Nodes :
          (InGame(p) /\ "Disconnected" \in events[p]) ~> (gameState[p] = "Lobby")

\* the Lobby has been entered from a match that had advanced frames
C11_Witness ==
    \E p \in Nodes :
        /\ gameState[p] = "Lobby" /\ matches[p] > 0
        /\ ~session[p].present /\ ~socket[p].present
        /\ op = [node |-> p, name |-> "StateTransition"]
        /\ stages[p].state = "Combat"

(* C12: a DesyncDetected event is answered like a disconnect: once it is      *)
(* taken off the session's event queue the Lobby has been requested, so the   *)
(* match does not go on.                                                      *)
C12_DesyncToLobby ==
    [][\A p \in Nodes :
          ("DesyncDetected" \in events[p] /\ events'[p] = {})
              => (nextState'[p] = "Lobby" \/ gameState'[p] = "Lobby")]_vars

-----------------------------------------------------------------------------
(* A match with mispredictions that ends by an event of the session *)

ReturnNext ==
    \/ SimNext
    \/ \E e \in GgrsEvents : SessionEvent(Solo, e)
    \/ ProcessGgrsEvents(Solo)

SpecReturn == Init /\ [][ReturnNext]_vars

(* C13: whenever the Lobby has just been entered, from Loading or from a     *)
(* match, no player and no arrow entity exists, the socket and the session   *)
(* are gone and the RNG holds the seed 8008135.                              *)
C13_LobbyIsClean ==
    \A p \in Nodes :
        gameState[p] = "Lobby" /\ op = [node |-> p, name |-> "StateTransition"]
            => /\ world[p].players = << >>
               /\ world[p].bullets = << >>
               /\ ~socket[p].present /\ ~session[p].present
               /\ world[p].rng = RngSeed

(* C14: a run of the Update schedule in Connecting while the socket knows    *)
(* fewer than 2 players, or while its channel has been taken, leaves the     *)
(* session, the local slot, the requested transition and the GameState as    *)
(* they were; a session is built only by a poll that takes the channel, and  *)
(* a socket never gets its channel back, so one connect builds one session.  *)
C14_PollNotReady ==
    [][\A p \in Nodes :
          /\ (/\ gameState[p] = "Connecting" /\ op' = [node |-> p, name |-> "Update"]
              /\ (Cardinality(socket[p].peers \cup {p}) < 2 \/ ~socket[p].channel))
                => (/\ session'[p] = session[p] /\ localPlayer'[p] = localPlayer[p]
                    /\ nextState'[p] = nextState[p] /\ gameState'[p] = gameState[p])
          /\ (session'[p].present /\ session'[p] # session[p])
                => (socket[p].channel /\ ~socket'[p].channel)
          /\ (socket[p].present /\ ~socket[p].channel /\ socket'[p].present)
                => ~socket'[p].channel]_vars

\* the poll has just run with no other peer known and left everything in place
C14_Witness ==
    \E p \in Nodes :
        /\ gameState[p] = "Connecting" /\ op = [node |-> p, name |-> "Update"]
        /\ socket[p].present /\ socket[p].channel /\ socket[p].peers = {}
        /\ ~session[p].present /\ nextState[p] = None /\ localPlayer[p] = NoLocalPlayer

-----------------------------------------------------------------------------
(* input/touch.rs: the touch interpreter.  Fingers move along one line of the *)
(* screen, in px.                                                             *)

MaxFingers == 2      \* fingers the screen tracks

TAP_MAX_DISTANCE == 10

FingerIds == 1..MaxFingers
\* screen positions: a point, one within the tap distance of it and one at the
\* tap distance
TouchPositions ==
    {Vec(0, 0), Vec(TAP_MAX_DISTANCE \div 2, 0), Vec(TAP_MAX_DISTANCE, 0)}
TouchPhases == {"Started", "Moved", "Ended", "Canceled"}
\* bevy's TouchInput: phase, position, id
TouchInputs == [phase : TouchPhases, position : TouchPositions, id : FingerIds]

\* TouchFinger::delta and TouchFinger::dist (compared by the squares)
delta(finger) == Vec(finger.pos.x - finger.start_pos.x, finger.pos.y - finger.start_pos.y)
dist_reaches(finger, d) ==
    delta(finger).x * delta(finger).x + delta(finger).y * delta(finger).y >= d * d

\* HashMap::insert and HashMap::remove on fingers
Inserted(fingers, id, finger) ==
    [f \in DOMAIN fingers \cup {id} |-> IF f = id THEN finger ELSE fingers[f]]
Removed(fingers, id) == [f \in DOMAIN fingers \ {id} |-> fingers[f]]

\* TouchPhase::Started
touch_started(t, e) ==
    [t EXCEPT !.fingers = Inserted(@, e.id,
                              [start_pos |-> e.position, pos |-> e.position, tap |-> TRUE])]

\* tap follows the distance the finger is at
moved_finger_tap_by_dist(finger, position) ==
    LET at == [finger EXCEPT !.pos = position]
    IN [at EXCEPT !.tap = ~dist_reaches(at, TAP_MAX_DISTANCE)]

\* the finger of a Moved event: at its new position, no tap once it is
\* TAP_MAX_DISTANCE from where it started
moved_finger(finger, position) ==
    LET at == [finger EXCEPT !.pos = position]
    IN IF dist_reaches(at, TAP_MAX_DISTANCE) THEN [at EXCEPT !.tap = FALSE] ELSE at

\* the finger that reached the tap distance last is the joystick
touch_moved_last_takes(t, e) ==
    IF e.id \notin DOMAIN t.fingers THEN t
    ELSE LET finger == moved_finger(t.fingers[e.id], e.position)
         IN [t EXCEPT !.fingers = Inserted(@, e.id, finger),
                      !.stick_id = IF dist_reaches(finger, TAP_MAX_DISTANCE) THEN {e.id} ELSE @]

\* TouchPhase::Moved
touch_moved(t, e) ==
    IF e.id \notin DOMAIN t.fingers THEN t
    ELSE LET finger == moved_finger(t.fingers[e.id], e.position)
         IN [t EXCEPT !.fingers = Inserted(@, e.id, finger),
                      !.stick_id = IF dist_reaches(finger, TAP_MAX_DISTANCE) /\ @ = {}
                                   THEN {e.id} ELSE @]

\* every finger that lifts fires
touch_ended_always_fires(t, e) ==
    [t EXCEPT !.fingers = Removed(@, e.id),
              !.stick_id = @ \ {e.id},
              !.fire_touch = {e.position}]

\* a finger that lifts keeps the joystick role
touch_ended_keeps_stick(t, e) ==
    [t EXCEPT !.fingers = Removed(@, e.id),
              !.fire_touch = IF t.fingers[e.id].tap THEN {e.position} ELSE @]

\* TouchPhase::Ended | TouchPhase::Canceled, for a finger the map holds
touch_ended(t, e) ==
    [t EXCEPT !.fingers = Removed(@, e.id),
              !.stick_id = @ \ {e.id},
              !.fire_touch = IF t.fingers[e.id].tap THEN {e.position} ELSE @]

\* the lifecycle variables, which the touch interpreter does not touch
appVars == << gameState, nextState, socket, session, localPlayer, world, start, snaps, hist,
              stages, events, localInputs, camera, animation, panicked,
              rollbacks, matches, samples, device, arena >>

\* process_touch_events (Update) for one event of the reader.  The window system
\* starts a finger before it moves or lifts it, and gives a new finger a new id.
ProcessTouchEvent(e) ==
    /\ e.phase = "Started" => e.id \notin DOMAIN touch.fingers
    /\ e.phase \in {"Ended", "Canceled"} => e.id \in DOMAIN touch.fingers
    /\ touch' = CASE e.phase = "Started" -> touch_started(touch, e)
                  [] e.phase = "Moved" -> touch_moved(touch, e)
                  [] OTHER -> touch_ended(touch, e)
    /\ event' = {e}
    /\ drained' = {}
    /\ op' = [node |-> Solo, name |-> "Update"]
    /\ UNCHANGED << appVars, pureVars >>

\* the direction of a vector along an axis; angle_between does not depend on length
Axis(v) == Vec(Sgn(v.x), Sgn(v.y))

\* the view_to_world closure of a camera looking at centre: y points up in the world
view_to_world(pos, centre) == Vec(pos.x - centre.x, centre.y - pos.y)

\* a drain that leaves the tap where it is
drain_keeps_tap(t, player_pos, default_angle, centre) ==
    LET fire == t.fire_touch # {}
        angle == IF fire
                 THEN LET screen_pos == CHOOSE v \in t.fire_touch : TRUE
                          to == view_to_world(screen_pos, centre)
                      IN to_u8_angle(vec_to_angle(Axis(Vec(to.x - player_pos.x,
                                                           to.y - player_pos.y))))
                 ELSE default_angle
        stick_dir == {to_u8_angle(vec_to_angle(Axis(Vec(delta(t.fingers[sid]).x,
                                                        -delta(t.fingers[sid]).y)))) :
                         sid \in t.stick_id \cap DOMAIN t.fingers}
        dir == IF stick_dir = {} THEN 0 ELSE CHOOSE d \in stick_dir : TRUE
        btn == (IF fire THEN FIRE ELSE 0) + (IF stick_dir # {} THEN MOVE ELSE 0)
    IN [touch |-> t,
        out |-> IF btn = 0 THEN {} ELSE {PlayerInput(dir, btn, angle)}]

\* TouchMovement::drain: the TouchMovement after the call and the Option returned
drain(t, player_pos, default_angle, centre) ==
    LET fire == t.fire_touch # {}
        angle == IF fire
                 THEN LET screen_pos == CHOOSE v \in t.fire_touch : TRUE
                          to == view_to_world(screen_pos, centre)
                      IN to_u8_angle(vec_to_angle(Axis(Vec(to.x - player_pos.x,
                                                           to.y - player_pos.y))))
                 ELSE default_angle
        stick_dir == {to_u8_angle(vec_to_angle(Axis(Vec(delta(t.fingers[sid]).x,
                                                        -delta(t.fingers[sid]).y)))) :
                         sid \in t.stick_id \cap DOMAIN t.fingers}
        dir == IF stick_dir = {} THEN 0 ELSE CHOOSE d \in stick_dir : TRUE
        btn == (IF fire THEN FIRE ELSE 0) + (IF stick_dir # {} THEN MOVE ELSE 0)
    IN [touch |-> [t EXCEPT !.fire_touch = {}],
        out |-> IF btn = 0 THEN {} ELSE {PlayerInput(dir, btn, angle)}]

\* what the caller hands to drain
DrainArgs ==
    [player_pos : {VZero}, default_angle : {DefaultInput.angle, InputRight.angle},
     centre : {Vec(TAP_MAX_DISTANCE \div 2, 0)}]

\* a drain that hands back a record whatever the buttons are
DrainAlwaysSome(args) ==
    /\ LET r == drain(touch, args.player_pos, args.default_angle, args.centre)
       IN /\ touch' = r.touch
          /\ drained' = {IF r.out = {} THEN {PlayerInput(0, 0, args.default_angle)} ELSE r.out}
    /\ event' = {}
    /\ op' = [node |-> Solo, name |-> "ReadInputs"]
    /\ UNCHANGED << appVars, pureVars >>

\* the input system calls drain (ReadInputs)
Drain(args) ==
    /\ LET r == drain(touch, args.player_pos, args.default_angle, args.centre)
       IN touch' = r.touch /\ drained' = {r.out}
    /\ event' = {}
    /\ op' = [node |-> Solo, name |-> "ReadInputs"]
    /\ UNCHANGED << appVars, pureVars >>

TouchNext ==
    \/ \E e \in TouchInputs : ProcessTouchEvent(e)
    \/ \E args \in DrainArgs : Drain(args)

SpecTouch == Init /\ [][TouchNext]_vars

-----------------------------------------------------------------------------
\* the fingers on the screen that are TAP_MAX_DISTANCE or more from their start
Far(t) == {f \in DOMAIN t.fingers : dist_reaches(t.fingers[f], TAP_MAX_DISTANCE)}

\* the records a drain returned
Drained == UNION drained

(* C15: a drain called while a tap-fire is pending returns a record with the *)
(* fire bit, without the move bit and with direction 0, also while a finger  *)
(* holds the joystick role.                                                  *)
C15_TapFireAlone ==
    [][(touch.fire_touch # {} /\ drained' # {})
          => (/\ Drained' # {}
              /\ \A r \in Drained' : Fire(r) /\ ~Moving(r) /\ r.dir = 0)]_vars

(* C16: the joystick role is held by at most one finger, one that is on the  *)
(* screen; it is taken only while vacant, by the finger of a Moved event     *)
(* that is at the tap distance or beyond; and it stays with its holder for   *)
(* as long as the holder is on the screen.                                   *)
C16_OneJoystick ==
    [][/\ Cardinality(touch'.stick_id) <= 1
       /\ touch'.stick_id \subseteq DOMAIN touch'.fingers
       /\ \A h \in touch.stick_id : h \in DOMAIN touch'.fingers => touch'.stick_id = {h}
       /\ \A f \in touch'.stick_id \ touch.stick_id :
             /\ touch.stick_id = {}
             /\ \E e \in event' : e.phase = "Moved" /\ e.id = f
             /\ f \in Far(touch')]_vars

\* a second finger has reached the tap distance while the first holds the role
C16_Witness ==
    \E h \in touch.stick_id : \E f \in Far(touch) :
        /\ f # h
        /\ \E e \in event : e.phase = "Moved" /\ e.id = f

(* C17: once the holder of the joystick role is released, a finger on the    *)
(* screen that had already dragged to the tap distance holds the role, so a  *)
(* drain called while such a finger is on the screen reports its movement.   *)
C17_RoleHandedOver ==
    (drained # {} /\ Far(touch) # {}) => \E r \in Drained : Moving(r)

(* C18: a finger that is at the tap distance or beyond after an event has    *)
(* its tap flag false, and a tap flag that is false stays false while the    *)
(* finger is on the screen, wherever the finger moves.                       *)
C18_TapIrreversible ==
    [][\A f \in DOMAIN touch'.fingers :
          /\ f \in Far(touch') => ~touch'.fingers[f].tap
          /\ (f \in DOMAIN touch.fingers /\ ~touch.fingers[f].tap)
                => ~touch'.fingers[f].tap]_vars

\* a finger that dragged to the tap distance has moved back to where it started
C18_Witness ==
    \E f \in DOMAIN touch.fingers :
        /\ ~touch.fingers[f].tap
        /\ touch.fingers[f].pos = touch.fingers[f].start_pos
        /\ \E e \in event : e.phase = "Moved" /\ e.id = f

(* C19: an Ended or Canceled event makes a tap-fire pending at the event's   *)
(* position if the finger's tap flag was true, and leaves the pending tap-   *)
(* fire as it was if the flag was false.                                     *)
C19_TapOnRelease ==
    [][\A e \in event' :
          (e.phase \in {"Ended", "Canceled"} /\ e.id \in DOMAIN touch.fingers)
              => /\ e.id \notin DOMAIN touch'.fingers
                 /\ touch'.fire_touch = IF touch.fingers[e.id].tap
                                        THEN {e.position} ELSE touch.fire_touch]_vars

\* the last finger on the screen was lifted and a tap-fire is pending where it was lifted
C19_Witness ==
    \E e \in event :
        /\ e.phase \in {"Ended", "Canceled"}
        /\ touch.fire_touch = {e.position}
        /\ DOMAIN touch.fingers = {}

(* C20: no tap-fire is pending after a drain, and a drain that follows a     *)
(* drain with no touch event in between returns no record with the fire bit.*)
C20_DrainClearsTap ==
    /\ [](drained # {} => touch.fire_touch = {})
    /\ [][(drained # {} /\ drained' # {}) => \A r \in Drained' : ~Fire(r)]_vars

\* a drain has just returned a record with the fire bit
C20_Witness ==
    /\ drained # {}
    /\ \E r \in Drained : Fire(r)
    /\ touch.fire_touch = {}

(* C21: drain returns None exactly when no tap-fire is pending and no finger *)
(* holds the joystick role; a record it returns has a button set; and a      *)
(* drain that returns None leaves the TouchMovement as it was.               *)
C21_DrainNone ==
    [][drained' # {}
          => (/\ (Drained' = {}) <=> (touch.fire_touch = {} /\ touch.stick_id = {})
              /\ \A r \in Drained' : r.btn # 0
              /\ Drained' = {} => touch' = touch)]_vars

\* a drain has returned None while a finger that has not dragged is on the screen
C21_Witness ==
    /\ drained # {} /\ Drained = {}
    /\ \E f \in DOMAIN touch.fingers : touch.fingers[f].tap

-----------------------------------------------------------------------------
(* The input system over the states of the window and the devices, in a match   *)
(* whose session advances                                                       *)

\* a touch result while keys and the mouse button are held and the cursor is in the window
TouchKeySample == [window |-> TRUE, touch |-> {PlayerInput(191, MOVE, 191)}, focused |-> TRUE,
                   keys |-> Vec(1, 0), mouse |-> TRUE, cursor |-> {Vec(1, 0)}]
\* nothing pressed, the cursor in the window left of its centre
CursorSample == [window |-> TRUE, touch |-> {}, focused |-> TRUE, keys |-> Vec(0, 0),
                 mouse |-> FALSE, cursor |-> {Vec(-1, 0)}]
\* the window is closed
NoWindowSample == [window |-> FALSE, touch |-> {}, focused |-> FALSE, keys |-> Vec(0, 0),
                   mouse |-> FALSE, cursor |-> {}]
InputSamples == Samples \cup {TouchKeySample, CursorSample, NoWindowSample}

InputNext ==
    \/ CheckLoad(Solo, "Loaded")
    \/ StateTransition(Solo)
    \/ MainMenu(Solo)
    \/ \E q \in PeerIds : PeerConnected(Solo, q)
    \/ WaitForPlayers(Solo, "Countdown")
    \/ \E sample \in InputSamples : Input(Solo, sample)
    \/ GgrsAdvance(Solo, {InputRight})

SpecInput == Init /\ [][InputNext]_vars

\* the same with the session's rollbacks
AimNext == InputNext \/ \E k \in 0..MaxFrame : Rollback(Solo, k, InputSet)

SpecAim == Init /\ [][AimNext]_vars


\* the input system ran for the peer in this step and read sample s
Read(s) == op' = [node |-> Solo, name |-> "ReadInputs"] /\ device'[Solo] = {s}

(* C22: in a tick in which the touch drain yields a record, the local input     *)
(* stored is that record in direction, buttons and aim, whatever keys and mouse *)
(* buttons are pressed and wherever the cursor is.                              *)
C22_TouchPriority ==
    [][\A s \in InputSamples :
          (Read(s) /\ s.window /\ s.touch # {}) => localInputs'[Solo] = s.touch]_vars

\* the input system has stored a touch record read with a key and the mouse button down
C22_Witness ==
    /\ op = [node |-> Solo, name |-> "ReadInputs"]
    /\ device[Solo] = {TouchKeySample}
    /\ localInputs[Solo] = TouchKeySample.touch
    /\ KeyInput(TouchKeySample, 0).btn = MOVE + FIRE

\* the aim byte the latest earlier tick of the input system cached, 0 if there was none
Cached == IF localInputs[Solo] = {} THEN 0 ELSE (CHOOSE r \in localInputs[Solo] : TRUE).angle

(* C23: in a tick with no touch result and no cursor position, the aim byte     *)
(* sampled is the aim byte the most recent earlier tick cached for the player,  *)
(* 0 if there was none: the cached aim is not reset while the cursor is away.   *)
C23_AimKept ==
    [][\A s \in InputSamples :
          (Read(s) /\ s.window /\ s.touch = {} /\ s.cursor = {})
              => \A r \in localInputs'[Solo] : r.angle = Cached]_vars

(* C24: a tick in which no key is down, the mouse button is up and there is no  *)
(* touch result stores the all-zero PlayerInput: direction 0, buttons 0, aim 0. *)
C24_IdleIsZero ==
    [][\A s \in InputSamples :
          (Read(s) /\ s.window /\ s.touch = {} /\ s.keys = Vec(0, 0) /\ ~s.mouse)
              => localInputs'[Solo] = {DefaultInput}]_vars

(* C25: the input system never aborts the program; in a tick with no window it  *)
(* stores the all-zero default record for the local slot.                       *)
C25_SamplingNeverFails ==
    [][\A s \in InputSamples :
          Read(s) => (/\ panicked'[Solo] = None
                      /\ ~s.window => localInputs'[Solo] = {DefaultInput})]_vars

-----------------------------------------------------------------------------
(* input.rs: the angle codec over the angles of one turn, in milliradians *)

U8Max == 255

\* from_u8_angle: (angle / 255).clamp(0, 1) * 2 PI
from_u8_angle(angle) == RoundDiv(Max(0, Min(angle, U8Max)) * TwoPi, U8Max)

\* the angles of [0, 2 PI)
Angles == 0..(TwoPi - 1)

\* an angle is encoded for the wire and decoded by the receiver
RoundTrip(a) ==
    /\ codec = {}
    /\ codec' = {[angle |-> a, byte |-> to_u8_angle(a),
                  back |-> from_u8_angle(to_u8_angle(a))]}
    /\ op' = [node |-> Solo, name |-> "to_u8_angle"]
    /\ UNCHANGED << appVars, touchVars, rngs, rets, decks, calls, total >>

AngleNext == \E a \in Angles : RoundTrip(a)

SpecAngle == Init /\ [][AngleNext]_vars

(* C26: for every angle a of [0, 2 PI), from_u8_angle(to_u8_angle(a)) differs   *)
(* from a by at most one quantization step, 2 PI / 255.                         *)
C26_RoundTrip ==
    \A c \in codec : /\ c.byte \in 0..U8Max
                     /\ U8Max * Abs(c.back - c.angle) <= TwoPi

\* the last angle below the full turn went through the codec and came back changed
C26_Witness ==
    \E c \in codec : c.angle = TwoPi - 1 /\ c.byte = U8Max /\ c.back # c.angle

-----------------------------------------------------------------------------
(* rand.rs: the linear congruential generator.  A u64 is kept as three limbs,   *)
(* hi * 2^62 + mid * 2^31 + low, so that products keep their 64 bits; an f64 or *)
(* f32 is kept as the exact fraction num / (den * 2^exp) it stands for.         *)

LimbMax == 2147483647  \* 2^31 - 1, the largest limb
HiLimbs == 4           \* 2^64 / 2^62
RngM == 2147483647
RngA == 48271
RngC == 0
F32Bits == 24          \* significant bits of an f32

\* the u64 of a number below 2^31
U64(n) == [hi |-> 0, mid |-> 0, low |-> n]

\* x + y for two limbs: the limb of the sum and the carry
AddLimb(x, y) ==
    IF x > LimbMax - y THEN [carry |-> 1, limb |-> x - (LimbMax - y) - 1]
    ELSE [carry |-> 0, limb |-> x + y]

\* a * v for a limb v and a small a, computed within 31 bits: with q = LimbMax / a
\* and r = LimbMax % a, a * v = LimbMax * k + t = 2^31 * k + (t - k)
MulLimb(a, v) ==
    LET q == LimbMax \div a
        r == LimbMax % a
        s == a * (v % q) - r * (v \div q)
        k == IF s < 0 THEN v \div q - 1 ELSE v \div q
        t == IF s < 0 THEN s + LimbMax ELSE s
    IN IF t >= k THEN [carry |-> k, limb |-> t - k]
       ELSE [carry |-> k - 1, limb |-> t - k + LimbMax + 1]

\* (v + w) % m for v, w < m, computed within 31 bits
AddMod(v, w, m) == IF v >= m - w THEN v - (m - w) ELSE v + w

\* n % (2^31 - 1): 2^31 and 2^62 are 1 modulo 2^31 - 1
Rem(n) == AddMod(AddMod(n.hi % LimbMax, n.mid % LimbMax, LimbMax), n.low % LimbMax, LimbMax)

\* a * n + c for a u64 n and small a and c: the u64 it wraps to, and whether it
\* left 64 bits
MulAdd(a, n, c) ==
    LET lo == MulLimb(a, n.low)
        low == AddLimb(lo.limb, c)
        mi == MulLimb(a, n.mid)
        mid == AddLimb(mi.limb, lo.carry + low.carry)
        top == a * n.hi + mi.carry + mid.carry
    IN [wrapped |-> [hi |-> top % HiLimbs, mid |-> mid.limb, low |-> low.limb],
        overflow |-> top >= HiLimbs]

\* floor(n * d / m) for n < m: n is added d times, q counts the times the sum passes m
RECURSIVE MulDiv(_, _, _, _, _)
MulDiv(n, d, m, q, r) ==
    IF d = 0 THEN q
    ELSE MulDiv(n, d - 1, m, IF r >= m - n THEN q + 1 ELSE q, AddMod(r, n, m))

\* the values a call returns
F64(num, den) == [kind |-> "f64", num |-> num, den |-> den, exp |-> 0]
F32(mant, exp) == [kind |-> "f32", num |-> mant, den |-> 1, exp |-> exp]
I32(n) == [kind |-> "i32", num |-> n, den |-> 1, exp |-> 0]
Usize(n) == [kind |-> "usize", num |-> n, den |-> 1, exp |-> 0]
Elem(e) == [kind |-> "T", num |-> e, den |-> 1, exp |-> 0]
Panic == [kind |-> "panic", num |-> 0, den |-> 0, exp |-> 0]

\* a generator whose multiplier is 1
Rng_new_fixed(seed) == [x |-> seed, m |-> RngM, a |-> 1, c |-> RngC]

\* Rng::new(seed): x is the seed, the rest is Rng::default()
Rng_new(seed) == [x |-> seed, m |-> RngM, a |-> RngA, c |-> RngC]

\* next_f64: self.x = (self.a * self.x + self.c) % self.m in u64 arithmetic, then
\* self.x as f64 / self.m as f64.  overflow: the product or the sum left 64 bits,
\* which aborts a build with overflow checks and wraps in one without
next_f64(rng) ==
    LET wide == MulAdd(rng.a, rng.x, rng.c)
        x == Rem(wide.wrapped)
    IN [rng |-> [rng EXCEPT !.x = U64(x)], out |-> F64(x, rng.m), overflow |-> wide.overflow]

\* as f32: num / den < 1 to the nearest fraction with 24 significant bits, ties to
\* even.  q is floor(num * 2^k / den), r what is left of num * 2^k
RECURSIVE as_f32(_, _, _, _)
as_f32(q, r, k, den) ==
    IF r = 0 THEN F32(q, k)
    ELSE IF q >= 2^(F32Bits - 1)
    THEN F32(IF r > den - r \/ (r = den - r /\ q % 2 = 1) THEN q + 1 ELSE q, k)
    ELSE CHOOSE f \in {as_f32(q2, r2, k2, den) :
                           q2 \in {IF r >= den - r THEN 2 * q + 1 ELSE 2 * q},
                           r2 \in {IF r >= den - r THEN r - (den - r) ELSE r + r},
                           k2 \in {k + 1}} : TRUE

\* next_f32: self.next_f64() as f32
next_f32(rng) == [next_f64(rng) EXCEPT !.out = as_f32(0, @.num, 0, @.den)]

\* an f32 product p / 2^k with p below 2^31, rounded to 24 significant bits
RECURSIVE round_f32(_, _)
round_f32(p, s) ==
    IF p \div 2^s < 2^F32Bits
    THEN IF s = 0 THEN p
         ELSE LET q == p \div 2^s
                  rest == p % 2^s
                  half == 2^(s - 1)
              IN (IF rest > half \/ (rest = half /\ q % 2 = 1) THEN q + 1 ELSE q) * 2^s
    ELSE round_f32(p, s + 1)

\* next_i32: r * (max - min) as f32, cast to i32, plus min
next_i32(rng, min, max) ==
    [next_f32(rng) EXCEPT
        !.out = I32((IF @.exp >= 31 THEN 0
                     ELSE round_f32(@.num * (max - min), 0) \div 2^@.exp) + min)]

\* next_usize: r * (max - min) as f64, cast to usize, plus min.  The f64 product of
\* x / m and a small integer is on the same side of every integer as the exact one
next_usize(rng, min, max) ==
    [next_f64(rng) EXCEPT !.out = Usize(MulDiv(@.num, max - min, @.den, 0, 0) + min)]

\* Vec::swap_remove(n): the last element takes the place of the one removed
swap_remove(c, n) ==
    [i \in 1..(Len(c) - 1) |-> IF i = n + 1 THEN c[Len(c)] ELSE c[i]]

\* extract_random: n = self.next_usize(0, c.len()); c.swap_remove(n), which aborts
\* when n is not an index of c
extract_random(rng, c) ==
    LET Take(r) ==
            IF r.out.num < Len(c)
            THEN [rng |-> r.rng, out |-> Elem(c[r.out.num + 1]), overflow |-> r.overflow,
                  deck |-> swap_remove(c, r.out.num)]
            ELSE [rng |-> r.rng, out |-> Panic, overflow |-> r.overflow, deck |-> c]
    IN Take(next_usize(rng, 0, Len(c)))

\* the calls made in the model, with their arguments
Call(fn, min, max) == [fn |-> fn, min |-> min, max |-> max]
RngCalls == {Call("next_f64", 0, 0), Call("next_f32", 0, 0), Call("next_i32", -1, 2),
             Call("next_usize", 1, 4), Call("extract_random", 0, 0)}

\* the seeds: the game's, the modulus, and 2^63
HighSeed == [hi |-> HiLimbs \div 2, mid |-> 0, low |-> 0]
Seeds == {U64(RngSeed), U64(RngM), HighSeed}

\* the Vec elements are extracted from
Deck == << 7, 8, 8 >>

\* a call on a generator and a Vec
Apply(c, rng, deck) ==
    CASE c.fn = "next_f64" -> next_f64(rng) @@ [deck |-> deck]
      [] c.fn = "next_f32" -> next_f32(rng) @@ [deck |-> deck]
      [] c.fn = "next_i32" -> next_i32(rng, c.min, c.max) @@ [deck |-> deck]
      [] c.fn = "next_usize" -> next_usize(rng, c.min, c.max) @@ [deck |-> deck]
      [] c.fn = "extract_random" -> extract_random(rng, deck)

\* two Rng values are created from one seed
Seed(seed) ==
    /\ ~rngs.present /\ ~total.running
    /\ rngs' = [present |-> TRUE, checks |-> {}, rng |-> [p \in Nodes |-> Rng_new(seed)]]
    /\ decks' = [p \in Nodes |-> Deck]
    /\ op' = [node |-> Solo, name |-> "Rng::new"]
    /\ UNCHANGED << appVars, touchVars, codec, rets, calls, total >>

Aborted(p) == \E i \in 1..Len(rets[p]) : rets[p][i].out = Panic

\* what call c does to generator p in a build that checks overflow or does not: the
\* entry of rets, the generator, the Vec
Outcome(p, c, checks) ==
    LET Built(r) ==
            IF checks /\ r.overflow
            THEN [ret |-> [call |-> c, out |-> Panic, x |-> rngs.rng[p].x],
                  rng |-> rngs.rng[p], deck |-> decks[p], overflow |-> TRUE]
            ELSE [ret |-> [call |-> c, out |-> r.out, x |-> r.rng.x],
                  rng |-> r.rng, deck |-> r.deck, overflow |-> r.overflow]
    IN Built(Apply(c, rngs.rng[p], decks[p]))

\* the builds the program may be: both until an overflow has been seen to abort or to wrap
Builds == IF rngs.checks = {} THEN BOOLEAN ELSE rngs.checks

\* a generator kept in one place that every holder advances
RngCallShared(p, c) ==
    /\ rngs.present /\ ~Aborted(p)
    /\ calls[p] < MaxCalls
    /\ calls' = [calls EXCEPT ![p] = @ + 1]
    /\ \E checks \in Builds :
          \E o \in {Outcome(p, c, checks)} :
             /\ rets' = [rets EXCEPT ![p] = Append(@, o.ret)]
             /\ rngs' = [rngs EXCEPT !.rng = [q \in Nodes |-> o.rng],
                                     !.checks = IF o.overflow THEN {checks} ELSE @]
             /\ decks' = [decks EXCEPT ![p] = o.deck]
    /\ op' = [node |-> p, name |-> c.fn]
    /\ UNCHANGED << appVars, touchVars, codec, total >>

\* one call on one of the two generators
RngCall(p, c) ==
    /\ rngs.present /\ ~Aborted(p)
    /\ calls[p] < MaxCalls
    /\ calls' = [calls EXCEPT ![p] = @ + 1]
    /\ \E checks \in Builds :
          \E o \in {Outcome(p, c, checks)} :
             /\ rets' = [rets EXCEPT ![p] = Append(@, o.ret)]
             /\ rngs' = [rngs EXCEPT !.rng[p] = o.rng,
                                     !.checks = IF o.overflow THEN {checks} ELSE @]
             /\ decks' = [decks EXCEPT ![p] = o.deck]
    /\ op' = [node |-> p, name |-> c.fn]
    /\ UNCHANGED << appVars, touchVars, codec, total >>

RngNext ==
    \/ \E seed \in Seeds : Seed(seed)
    \/ \E p \in Nodes, c \in RngCalls : RngCall(p, c)

SpecRng == Init /\ [][RngNext]_vars

\* the calls generator p has been given, in order
Script(p) == [i \in 1..Len(rets[p]) |-> rets[p][i].call]
Twin == CHOOSE p \in Nodes : p # Solo

Made(p, c) == op' = [node |-> p, name |-> c.fn] /\ Len(rets'[p]) = Len(rets[p]) + 1
Last(p) == rets[p][Len(rets[p])]

(* C28: for every seed, a next_f64 call replaces the state x by                 *)
(* (48271 * x + 0) mod 2147483647 and returns the new state divided by          *)
(* 2147483647, so the state is in [0, m) and the value in [0, 1).               *)
C28_LcgStep ==
    [][\A p \in Nodes :
          Made(p, Call("next_f64", 0, 0))
              => LET ax == MulLimb(RngA, Rem(rngs.rng[p].x))
                     x == AddMod(AddMod(ax.carry, ax.limb % RngM, RngM), RngC, RngM)
                     r == Last(p)'
                 IN /\ rngs'.rng[p].x = U64(x)
                    /\ r.out = F64(x, RngM)
                    /\ 0 <= r.out.num /\ r.out.num < r.out.den]_vars

\* how many times v is in the sequence c
Times(v, c) == Cardinality({i \in DOMAIN c : c[i] = v})

(* C29: on a Vec of length k >= 1, extract_random returns an element that was   *)
(* in it and leaves the other k - 1 elements, in some order; the index it       *)
(* takes, next_usize(0, k), is in [0, k).                                       *)
C29_ExtractOne ==
    [][\A p \in Nodes :
          (Made(p, Call("extract_random", 0, 0)) /\ Len(decks[p]) >= 1)
              => LET k == Len(decks[p])
                     n == next_usize(rngs.rng[p], 0, k).out.num
                     r == Last(p)'
                 IN /\ 0 <= n /\ n < k
                    /\ r.out.kind = "T"
                    /\ \E i \in 1..k : decks[p][i] = r.out.num
                    /\ Len(decks'[p]) = k - 1
                    /\ \A i \in 1..k :
                          Times(decks[p][i], decks[p])
                              = Times(decks[p][i], decks'[p])
                                + (IF decks[p][i] = r.out.num THEN 1 ELSE 0)]_vars

-----------------------------------------------------------------------------
(* rand.rs: the test evenly_distributed.  The sum of the draws is kept exactly, *)
(* as whole + part / m.                                                         *)

TestSeed == 1028
Count == 1000000
EpsilonMilli == 1      \* epsilon = 0.001, in thousandths
HalfMilli == 500       \* 0.5, in thousandths

\* avg += rng.next_f64()
Draw(t) ==
    LET r == next_f64(t.rng)
        x == r.out.num
    IN IF x >= t.rng.m - t.part
       THEN [rng |-> r.rng, whole |-> t.whole + 1, part |-> t.part - (t.rng.m - x)]
       ELSE [rng |-> r.rng, whole |-> t.whole, part |-> t.part + x]

\* n iterations of the loop: the first half of them, then the rest
RECURSIVE Draws(_, _)
Draws(t, n) ==
    IF n = 0 THEN t
    ELSE IF n = 1 THEN Draw(t)
    ELSE CHOOSE d \in {Draws(half, rest) : half \in {Draws(t, n \div 2)},
                                              rest \in {n - n \div 2}} : TRUE

\* let mut avg = 0f64; let mut rng = Rng::new(1028)
TestStart ==
    /\ ~rngs.present /\ ~total.running
    /\ rngs' = [rngs EXCEPT !.present = TRUE, !.rng[Solo] = Rng_new(U64(TestSeed))]
    /\ total' = [NoTotal EXCEPT !.running = TRUE]
    /\ op' = [node |-> Solo, name |-> "evenly_distributed"]
    /\ UNCHANGED << appVars, touchVars, codec, rets, decks, calls >>

\* the next iterations of for _ in 0..count
TestLoop ==
    /\ total.running /\ total.draws < Count
    /\ LET n == Min(Chunk, Count - total.draws)
           d == Draws([rng |-> rngs.rng[Solo], whole |-> total.whole, part |-> total.part], n)
       IN /\ rngs' = [rngs EXCEPT !.rng[Solo] = d.rng]
          /\ total' = [total EXCEPT !.draws = @ + n, !.whole = d.whole, !.part = d.part]
    /\ op' = [node |-> Solo, name |-> "next_f64"]
    /\ UNCHANGED << appVars, touchVars, codec, rets, decks, calls >>

MeanNext == TestStart \/ TestLoop

SpecMean == Init /\ [][MeanNext]_vars

\* the loop has made all its draws
Summed == total.running /\ total.draws = Count

(* C30: from seed 1028, the mean of the first 1,000,000 next_f64 values is      *)
(* strictly between 0.499 and 0.501.                                            *)
C30_EvenlyDistributed ==
    Summed => /\ \/ total.whole > (HalfMilli - EpsilonMilli) * (Count \div 1000)
                 \/ /\ total.whole = (HalfMilli - EpsilonMilli) * (Count \div 1000)
                    /\ total.part > 0
              /\ total.whole < (HalfMilli + EpsilonMilli) * (Count \div 1000)

\* the million draws are made and the generator has left its seed
C30_Witness == Summed /\ rngs.rng[Solo].x # U64(TestSeed) /\ total.whole > 0

-----------------------------------------------------------------------------
(* main.rs: move_player and the MOVE bit of the frame's input *)

\* peer p has just simulated a new frame in Combat
Simulated(p) ==
    /\ op' = [node |-> p, name |-> "GgrsSchedule"]
    /\ Frame(p)' = Frame(p) + 1
    /\ stages'[p].state = "Combat"

(* C34: in a frame whose input for a player has the move bit clear (the all-  *)
(* zero input among them) move_player leaves the player where it was and sets *)
(* its velocity to zero.                                                      *)
C34_StillWithoutMove ==
    [][\A p \in Nodes :
          Simulated(p)
              => \A i \in 1..Len(world[p].players) :
                    ~Moving(hist'[p][Frame(p)'].in[world[p].players[i].id])
                        => /\ stages'[p].moved[i] = world[p].players[i].pos
                           /\ world'[p].players[i].vel = VZero]_vars

-----------------------------------------------------------------------------
-----------------------------------------------------------------------------
(* input/touch.rs: process_touch_events under a window system that may report *)
(* the end of a touch it never reported the start of (a finger that was down  *)
(* before the events were listened to, or one that was canceled and then      *)
(* lifted)                                                                    *)

\* process_touch_events (Update) for one event of the reader
process_touch_events(e) ==
    /\ Alive(Solo)
    /\ e.phase = "Started" => e.id \notin DOMAIN touch.fingers
    /\ IF e.phase \in {"Ended", "Canceled"} /\ e.id \notin DOMAIN touch.fingers
       THEN \* touch_res.fingers.remove(id).expect("Finger lost in transit.")
            /\ panicked' = [panicked EXCEPT ![Solo] = "process_touch_events"]
            /\ touch' = touch
       ELSE /\ touch' = CASE e.phase = "Started" -> touch_started(touch, e)
                           [] e.phase = "Moved" -> touch_moved(touch, e)
                           [] OTHER -> touch_ended(touch, e)
            /\ UNCHANGED panicked
    /\ event' = {e}
    /\ drained' = {}
    /\ op' = [node |-> Solo, name |-> "Update"]
    /\ UNCHANGED << gameState, nextState, socket, session, localPlayer, world, start, snaps,
                    hist, stages, events, localInputs, camera, animation,
                    rollbacks, matches, samples, device, pureVars, arena >>

FingersNext ==
    \/ \E e \in TouchInputs : process_touch_events(e)
    \/ \E args \in DrainArgs : Alive(Solo) /\ Drain(args)

SpecFingers == Init /\ [][FingersNext]_vars

(* C36: process_touch_events handles every touch event without failing, an   *)
(* Ended or Canceled event for a finger id the map does not hold among them,  *)
(* and leaves at most one joystick id, that of a finger the map holds.        *)
C36_IngestionNeverFails ==
    /\ panicked[Solo] # "process_touch_events"
    /\ Cardinality(touch.stick_id) <= 1
    /\ touch.stick_id \subseteq DOMAIN touch.fingers

-----------------------------------------------------------------------------
(* C38: whenever a peer is in Countdown or Combat it has a session, of two    *)
(* players, and exactly two Player entities, with ids 0 and 1, so that        *)
(* inputs[player.id] is a slot of the input set; also in a match entered      *)
(* after an earlier one was left on a disconnect.                             *)
C38_TwoPlayersInMatch ==
    \A p \in Nodes :
        InGame(p)
            => /\ session[p].present /\ session[p].num_players = NumPlayers
               /\ Len(world[p].players) = NumPlayers
               /\ {world[p].players[i].id : i \in 1..Len(world[p].players)} = Slots

\* a frame of Combat has been simulated in the second match of a peer
C38_Witness ==
    \E p \in Nodes :
        /\ matches[p] = 2 /\ gameState[p] = "Combat" /\ Frame(p) > 0
        /\ op = [node |-> p, name |-> "GgrsSchedule"]

-----------------------------------------------------------------------------
(* The two peers of a room meet: each runs the program, the signalling server *)
(* introduces them to each other, and the schedules of each app keep running  *)

MeetNext ==
    \E p \in Nodes :
        \/ CheckLoad(p, "Loaded")
        \/ StateTransition(p)
        \/ MainMenu(p)
        \/ \E q \in Nodes : PeerConnected(p, q)
        \/ \E target \in PollTargets : WaitForPlayers(p, target)
        \/ GgrsAdvance(p, {InputRight})

SpecMeet ==
    /\ Init /\ [][MeetNext]_vars
    /\ \A p \in Nodes :
          /\ WF_vars(StateTransition(p))
          /\ WF_vars(\E target \in PollTargets : WaitForPlayers(p, target))
          \* weak fairness of the session's frames: WF_vars(GgrsAdvance(p, ..)), with
          \* the action's guard written out
          /\ \/ []<>~(Alive(p) /\ Running(p) /\ world[p].frame < MaxFrame)
             \/ []<><<GgrsAdvance(p, {InputRight})>>_vars

\* peer p is connecting and its socket knows the other peer
SeesBoth(p) ==
    /\ gameState[p] = "Connecting" /\ socket[p].present /\ socket[p].channel
    /\ Cardinality(socket[p].peers \cup {p}) = NumPlayers

(* C39: a peer that is connecting and sees 2 players eventually reaches      *)
(* Combat, when the readiness poll, the state transitions and the session's  *)
(* frames keep being run: the poll creates the session and leaves            *)
(* Connecting, and Countdown goes on to Combat with the next simulated frame.*)
C39_ReachesCombat ==
    \A p \in Nodes : SeesBoth(p) ~> (gameState[p] = "Combat")

-----------------------------------------------------------------------------
(* Combat over many frames: shoot, reload, the hit system and                *)
(* despawn_after_lifetime beyond the frames a session is followed for.       *)

\* every frame up to the one that culls an arrow shot in the last free frame
Horizon == MaxSteps + BulletLifetime + 1

\* main.rs schedules its own bullet_player_collision; collision.rs holds
\* bullet_player_system, which keeps Health and LastDamagedBy
HitSystems == {"bullet_player_collision", "bullet_player_system"}

ChainWith(hit) ==
    [i \in 1..Len(CombatChain) |->
        IF CombatChain[i] = "bullet_player_collision" THEN hit ELSE CombatChain[i]]

\* GgrsSchedule in Combat on one frame's inputs
RunCombat(w, hit, in) ==
    RunChain(ChainWith(hit), [w |-> w, in |-> in, spawn |-> << >>, despawn |-> {}, log |-> << >>])

\* the world spawn_players leaves when Connecting is left, ready for Horizon frames
ArenaWorld ==
    spawn_players([EmptyWorld EXCEPT !.rng = RngSeed, !.fx = [f \in 0..(Horizon - 1) |-> 0]])

\* inputs that only differ in the fire bit: both slots aim to the right, so
\* slot 0 shoots at slot 1 and the arrows of slot 1 leave the map
Loose == PlayerInput(0, FIRE, 64)
Rest == PlayerInput(0, 0, 64)
ArenaInputs == {Loose, Rest}

\* both slots shoot away from each other, or both rest
Volley == [s \in Slots |-> PlayerInput(0, FIRE, IF s = 0 THEN 191 ELSE 64)]
AtRest == [s \in Slots |-> Rest]

ArenaRest ==
    << gameState, nextState, socket, session, localPlayer, world, start, snaps, hist,
       stages, events, localInputs, camera, animation, panicked, rollbacks, matches,
       samples, device, touchVars, pureVars >>

Shooters(c) == {c.spawn[j].id[2] : j \in 1..Len(c.spawn)}

EnterArena(hit) ==
    /\ arena.hit = None
    /\ arena' = [NoArena EXCEPT !.hit = hit, !.w = ArenaWorld]
    /\ op' = [node |-> Solo, name |-> "OnExit Connecting"]
    /\ UNCHANGED ArenaRest

\* one frame of GgrsSchedule in Combat: the chain, its Commands, the frame counter
Fight(in) ==
    /\ arena.hit # None
    /\ arena.w.frame < Horizon
    /\ \E c \in {RunCombat(arena.w, arena.hit, in)} :
          arena' = [arena EXCEPT
                      !.w = advance_frame(ApplyCommands(c)),
                      !.in = in,
                      !.shots = [s \in Slots |->
                                    IF s \in Shooters(c) THEN Append(@[s], arena.w.frame)
                                    ELSE @[s]],
                      !.span = [s \in Slots |->
                                    IF ~Fire(in[s]) THEN 0
                                    ELSE @[s] + (IF s \in Shooters(c) THEN 1 ELSE 0)]]
    /\ op' = [node |-> Solo, name |-> "GgrsSchedule"]
    /\ UNCHANGED ArenaRest

CombatNext ==
    \/ \E hit \in HitSystems : EnterArena(hit)
    \/ \E in \in [Slots -> ArenaInputs] : arena.w.frame < MaxSteps /\ Fight(in)

SpecCombat == Init /\ [][CombatNext]_vars

\* fire is offered in the first MaxSteps frames, and the arrows are then left to fly
LifetimeNext ==
    \/ \E hit \in HitSystems : EnterArena(hit)
    \/ \E in \in {Volley, AtRest} : arena.w.frame < MaxSteps /\ Fight(in)
    \/ arena.w.frame >= MaxSteps /\ Fight(AtRest)

SpecLifetime == Init /\ [][LifetimeNext]_vars

Fought == arena.hit # None /\ arena'.w.frame = arena.w.frame + 1
ArenaPlayer(a, s) == a.w.players[CHOOSE i \in 1..Len(a.w.players) : a.w.players[i].id = s]
ArrowIds(w) == {w.bullets[j].id : j \in 1..Len(w.bullets)}
ShotIn(s) == Len(arena'.shots[s]) > Len(arena.shots[s])

\* C31: any two arrows of one player are at least SHOOT_COOLDOWN frames apart; a
\* player shoots in a frame only with the fire bit set, CanShoot.value true and
\* since_last >= 25, and the shot resets since_last (reload then counts the frame)
C31_CooldownBetweenArrows ==
    [][Fought =>
        \A s \in Slots :
            /\ \A k \in 1..(Len(arena'.shots[s]) - 1) :
                   arena'.shots[s][k + 1] - arena'.shots[s][k] >= ShootCooldown
            /\ ShotIn(s) =>
                   /\ Fire(arena'.in[s])
                   /\ ArenaPlayer(arena, s).can_shoot.value
                   /\ ArenaPlayer(arena, s).can_shoot.since_last >= ShootCooldown
                   /\ ArenaPlayer(arena', s).can_shoot.since_last = 1
                   /\ <<arena.w.frame, s>> \in ArrowIds(arena'.w)]_vars

\* a slot has shot twice, the second time as soon as the cooldown allowed
C31_Witness ==
    \E s \in Slots : /\ Len(arena.shots[s]) = 2
                     /\ arena.shots[s][2] - arena.shots[s][1] <= ShootCooldown + 1

\* C32: a player who holds fire over consecutive frames spawns at most one arrow in
\* that span; after a shot CanShoot.value is false, and it turns true only in a
\* frame whose input has the fire bit clear
C32_OneArrowPerHold ==
    [][Fought =>
        \A s \in Slots :
            /\ arena'.span[s] <= 1
            /\ ShotIn(s) => ~ArenaPlayer(arena', s).can_shoot.value
            /\ (~ArenaPlayer(arena, s).can_shoot.value /\ ArenaPlayer(arena', s).can_shoot.value)
                   => ~Fire(arena'.in[s])]_vars

\* fire has been held since a shot for longer than the cooldown
C32_Witness ==
    \E s \in Slots : /\ arena.span[s] = 1 /\ Fire(arena.in[s])
                     /\ ArenaPlayer(arena, s).can_shoot.since_last > ShootCooldown

\* C33: an arrow (Lifetime 150) is in the world up to the frame that decrements its
\* counter for the 150th time and is gone after it; the counter of a live entity is
\* never 0 when a frame starts, so the decrement does not underflow
C33_CulledAtLifetime ==
    /\ \A j \in 1..Len(arena.w.bullets) :
          /\ arena.w.bullets[j].life >= 1
          /\ arena.w.bullets[j].life = BulletLifetime - (arena.w.frame - 1 - arena.w.bullets[j].id[1])
    /\ \A s \in Slots : \A k \in 1..Len(arena.shots[s]) :
          <<arena.shots[s][k], s>> \in ArrowIds(arena.w)
              <=> arena.w.frame <= arena.shots[s][k] + BulletLifetime

\* the frame that decrements an arrow's counter to 0 has run and the arrow is gone
C33_Witness ==
    \E s \in Slots : \E k \in 1..Len(arena.shots[s]) :
        /\ arena.w.frame = arena.shots[s][k] + BulletLifetime + 1
        /\ <<arena.shots[s][k], s>> \notin ArrowIds(arena.w)

Struck(i) == {j \in 1..Len(arena.w.bullets) : Hits(arena'.w.players[i], arena.w.bullets[j])}
Loss(i) == arena.w.players[i].health - arena'.w.players[i].health

====
